---- MODULE Spec2Model ----
(***************************************************************************)
(* A model of the brick-assembly optimizers of LEGOIZER_MVP:               *)
(*   - LayerMerger  (backend/postprocess/opt_from_tencent.py)              *)
(*   - AxialMerger  (backend/postprocess/opt_v3.py)                        *)
(*   - RunOptimizer (backend/postprocess/mpd_optimizer.py)                 *)
(* Text tokens on which the code works character by character (part       *)
(* numbers, colour tokens) are sequences of one-character strings.         *)
(***************************************************************************)
EXTENDS Integers, Sequences, FiniteSets, TLC

VARIABLES
    \* ---- LayerMerger: merge_1x1_to_larger ----
    grid_by_z,        \* build_voxel_grid: z -> ((x, y) -> colour)
    lm_lines,         \* mpd.files[first]: the lines of the parsed input sub-model
    lm_pc,            \* position in merge_1x1_to_larger: "parse" | "loop" | "built"
    lm_todo,          \* colours of the layer the loop has not visited yet
    lm_last,          \* what the last call of merge_components_for_layer returned
    kept_by_layer,    \* kept_by_layer[z]
    bricks_by_layer,  \* bricks_by_layer[z]
    lm_out,           \* the lines of the first sub-model after build_merged_mpd
    \* ---- AxialMerger: a call of merge_in_line ----
    ml_components,    \* the argument components
    ml_axis,          \* the argument axis
    ml_part_type,     \* the argument part_type
    ml_pc,            \* "call" before the call, "done" after it
    ml_result,        \* [status, merged]: the list returned, or the exception
    \* ---- AxialMerger: a call of opt_v3.optimize_mpd_file ----
    ax_file,          \* the file at file_path
    ax_part_type,     \* the argument part_type
    ax_axis,          \* the argument axis
    ax_pc,            \* "call" before the call, "done" after it
    ax_status,        \* how the call ended
    \* ---- RunOptimizer: successive calls of mpd_optimizer.optimize_mpd_file ----
    run_file,         \* the file at mpd_path
    run_base_part,    \* the argument base_part
    run_passes,       \* calls made so far
    run_status,       \* how the last call ended
    \* ---- PartLibrary: a call of part_to_ldraw ----
    lib_token,        \* the argument part_type
    lib_pc,           \* "call" before the call, "done" after it
    lib_descriptor,   \* what _resolve_descriptor returned
    lib_part,         \* what part_to_ldraw returned
    col_value,        \* the colour code given to _format_ldraw_color
    col_token,        \* a colour token of a type-1 line
    col_rgb,          \* what hex_to_rgb returned
    col_id,           \* what match_lego_color returned
    col_pc,           \* "format", "decode" or "match" before the call, "done" at the end
    mc_grid,          \* grid_by_z of a call of merge_components_for_layer
    mc_color,         \* its argument color
    mc_candidates,    \* its argument candidates
    mc_stability,     \* its argument stability
    mc_offset,        \* the offset of the second call's grid
    mc_pc,            \* "call", "moved" before the second call, "done"
    mc_comps,         \* comps of the first call
    mc_result,        \* what the first call returned
    mc_moved          \* what the call on the moved grid returned

layerVars == <<lm_lines, grid_by_z, lm_pc, lm_todo, lm_last, kept_by_layer, bricks_by_layer, lm_out>>
lineVars == <<ml_components, ml_axis, ml_part_type, ml_pc, ml_result>>
axialVars == <<ax_file, ax_part_type, ax_axis, ax_pc, ax_status>>
runVars == <<run_file, run_base_part, run_passes, run_status>>
libVars == <<lib_token, lib_pc, lib_descriptor, lib_part>>
colourVars == <<col_value, col_token, col_rgb, col_id, col_pc>>
mcVars == <<mc_grid, mc_color, mc_candidates, mc_stability, mc_offset, mc_pc, mc_comps, mc_result, mc_moved>>
vars == <<layerVars, lineVars, axialVars, runVars, libVars, colourVars, mcVars>>

(***************************************************************************)
(* Bounds of the model.                                                    *)
(***************************************************************************)
GridW == 3          \* x ranges over 0 .. GridW-1
GridH == 2          \* y ranges over 0 .. GridH-1
MaxCells == 3       \* occupied cells of a layer
RunMax == 6         \* stud positions along the axis of a merge_in_line call
XSteps == 3         \* stud positions along x of the unit parts of a document
AxialParts == 2     \* unit parts of a document given to the AxialMerger
MaxParts == 3       \* unit parts of a document given to the RunOptimizer
MaxPasses == 2      \* successive calls of the RunOptimizer on one file
MaxLines == 4       \* lines of a mixed document given to the RunOptimizer
ChannelSteps == 3   \* even divisions of a colour channel
MaxTokenLen == 8    \* characters of a colour token after its prefix
ShapeW == 4         \* x ranges over 0 .. ShapeW-1 in the shapes given to merge_components_for_layer
LongRun == 8        \* cells of the longest straight run

\* colour codes of the unit parts of a layer (the tests use 21 and 5)
LayerColors == {5, 21}
\* the z of the layers of the model
Layers == {0}

(***************************************************************************)
(* Generic helpers.                                                        *)
(***************************************************************************)
Min(S) == CHOOSE m \in S : \A n \in S : m <= n
Max(S) == CHOOSE m \in S : \A n \in S : m >= n
Abs(n) == IF n < 0 THEN -n ELSE n
Range(s) == {s[i] : i \in DOMAIN s}
\* a function as the table of its values, which TLC then computes once
Stored(f) == f @@ <<>>

RECURSIVE SumSeq(_)
SumSeq(s) == IF s = <<>> THEN 0 ELSE Head(s) + SumSeq(Tail(s))

\* lexicographic order on pairs of integers
PairLess(a, b) == a[1] < b[1] \/ (a[1] = b[1] /\ a[2] < b[2])

\* list.sort(key=...) : a stable sort of records with an integer-pair field key:
\* the keys ascending, the elements of one key in their original order
RECURSIVE KeysInOrder(_)
KeysInOrder(K) ==
    IF K = {} THEN <<>>
    ELSE LET m == CHOOSE a \in K : \A b \in K : a = b \/ PairLess(a, b)
         IN <<m>> \o KeysInOrder(K \ {m})
RECURSIVE Buckets(_, _)
Buckets(s, ks) ==
    IF ks = <<>> THEN <<>>
    ELSE SelectSeq(s, LAMBDA e : e.key = Head(ks)) \o Buckets(s, Tail(ks))
StableSort(s) == Buckets(s, KeysInOrder({s[i].key : i \in DOMAIN s}))

\* the cells of a set in ascending (x, y) order
CellsInOrder(S) == KeysInOrder(S)

(***************************************************************************)
(* Characters and strings (str.lower, str.upper, endswith, startswith).    *)
(***************************************************************************)
LowerAlpha == <<"a","b","c","d","e","f","g","h","i","j","k","l","m",
                "n","o","p","q","r","s","t","u","v","w","x","y","z">>
UpperAlpha == <<"A","B","C","D","E","F","G","H","I","J","K","L","M",
                "N","O","P","Q","R","S","T","U","V","W","X","Y","Z">>

ToLower == Stored([c \in Range(UpperAlpha) |-> LowerAlpha[CHOOSE i \in 1..26 : UpperAlpha[i] = c]])
ToUpper == Stored([c \in Range(LowerAlpha) |-> UpperAlpha[CHOOSE i \in 1..26 : LowerAlpha[i] = c]])
LowerChar(c) == IF c \in DOMAIN ToLower THEN ToLower[c] ELSE c
UpperChar(c) == IF c \in DOMAIN ToUpper THEN ToUpper[c] ELSE c
StrLower(s) == [i \in 1..Len(s) |-> LowerChar(s[i])]
StrUpper(s) == [i \in 1..Len(s) |-> UpperChar(s[i])]
EndsWith(s, suf) ==
    Len(s) >= Len(suf) /\ SubSeq(s, Len(s) - Len(suf) + 1, Len(s)) = suf
StartsWith(s, pre) == Len(s) >= Len(pre) /\ SubSeq(s, 1, Len(pre)) = pre

\* str.strip(): leading and trailing blanks removed
RECURSIVE LStripBlank(_)
LStripBlank(s) == IF s # <<>> /\ Head(s) = " " THEN LStripBlank(Tail(s)) ELSE s
RECURSIVE RStripBlank(_)
RStripBlank(s) ==
    IF s # <<>> /\ s[Len(s)] = " " THEN RStripBlank(SubSeq(s, 1, Len(s) - 1)) ELSE s
StrStrip(s) == RStripBlank(LStripBlank(s))

DotDat == <<".","d","a","t">>

(***************************************************************************)
(* opt_from_tencent.py : helpers.                                          *)
(***************************************************************************)
normalize_part_number(part_no) ==
    LET token == StrStrip(part_no)
        cut == IF EndsWith(StrLower(token), DotDat)
               THEN SubSeq(token, 1, Len(token) - 4) ELSE token
    IN StrUpper(cut)

ensure_part_extension(part_no) ==
    LET token == StrStrip(part_no)
    IN IF EndsWith(StrLower(token), DotDat) THEN token ELSE token \o DotDat

\* Rect = <<x0, y0, x1, y1>>, bounds inclusive
rect_area(r) ==
    LET w == r[3] - r[1] + 1
        h == r[4] - r[2] + 1
    IN (IF w > 0 THEN w ELSE 0) * (IF h > 0 THEN h ELSE 0)

cells_in_rect(r) == {<<x, y>> : x \in r[1]..r[3], y \in r[2]..r[4]}

EmptyLayer == [c \in {} |-> 0]
\* grid_by_z.get(z, {})
LayerOf(grid, z) == IF z \in DOMAIN grid THEN grid[z] ELSE EmptyLayer

\* dirs8, the directions of connectivity 26
Dirs8 ==
    << <<-1, 0>>, <<1, 0>>, <<0, -1>>, <<0, 1>>, <<-1, -1>>, <<-1, 1>>, <<1, -1>>, <<1, 1>> >>
\* dirs4 of bfs_connected_components, in the order of the list
Dirs4 == << <<-1, 0>>, <<1, 0>>, <<0, -1>>, <<0, 1>> >>

\* the neighbours of cell c that the loop over dirs appends to the queue
RECURSIVE BfsNeighbours(_, _, _, _)
BfsNeighbours(layer, c, visited, i) ==
    IF i > Len(Dirs4) THEN <<>>
    ELSE LET nb == <<c[1] + Dirs4[i][1], c[2] + Dirs4[i][2]>>
         IN IF nb \in DOMAIN layer /\ nb \notin visited
            THEN <<nb>> \o BfsNeighbours(layer, c, visited \cup {nb}, i + 1)
            ELSE BfsNeighbours(layer, c, visited, i + 1)

\* the while-loop over the queue q: the component and the visited set it ends with
RECURSIVE BfsDrain(_, _, _, _)
BfsDrain(layer, q, visited, comp) ==
    IF q = <<>> THEN [comp |-> comp, visited |-> visited]
    ELSE LET c == Head(q)
             nbs == BfsNeighbours(layer, c, visited, 1)
         IN BfsDrain(layer, Tail(q) \o nbs, visited \cup Range(nbs), comp \cup {c})

\* the for-loop over the keys of the grid (insertion order: ascending (x, y))
RECURSIVE BfsFrom(_, _, _)
BfsFrom(layer, starts, visited) ==
    IF starts = <<>> THEN <<>>
    ELSE IF Head(starts) \in visited THEN BfsFrom(layer, Tail(starts), visited)
    ELSE LET r == BfsDrain(layer, <<Head(starts)>>, visited \cup {Head(starts)}, {})
         IN <<r.comp>> \o BfsFrom(layer, Tail(starts), r.visited)

bfs_connected_components(layer) == BfsFrom(layer, CellsInOrder(DOMAIN layer), {})

(***************************************************************************)
(* opt_from_tencent.py : part library and candidate sizes.                 *)
(***************************************************************************)
S3024 == <<"3","0","2","4">>
S3023 == <<"3","0","2","3">>
S3623 == <<"3","6","2","3">>
S3710 == <<"3","7","1","0">>
S3022 == <<"3","0","2","2">>
S3021 == <<"3","0","2","1">>
S3020 == <<"3","0","2","0">>
S3031 == <<"3","0","3","1">>

\* base of get_part_library, in the order of the dict literal
PartLibBase ==
    << [w |-> 1, h |-> 1, part |-> S3024], [w |-> 1, h |-> 2, part |-> S3023],
       [w |-> 1, h |-> 3, part |-> S3623], [w |-> 1, h |-> 4, part |-> S3710],
       [w |-> 2, h |-> 2, part |-> S3022], [w |-> 2, h |-> 3, part |-> S3021],
       [w |-> 2, h |-> 4, part |-> S3020], [w |-> 4, h |-> 4, part |-> S3031] >>

\* lib = dict(base), then the loop that adds (h, w) -> part for every base entry
\* (w, h) with w # h whose rotation is not yet a key
BaseKeys == {<<PartLibBase[i].w, PartLibBase[i].h>> : i \in DOMAIN PartLibBase}
BasePart(k) == PartLibBase[CHOOSE i \in DOMAIN PartLibBase :
                              <<PartLibBase[i].w, PartLibBase[i].h>> = k].part
get_part_library ==
    Stored([k \in BaseKeys \cup {<<b[2], b[1]>> : b \in {c \in BaseKeys : c[1] # c[2]}} |->
               IF k \in BaseKeys THEN BasePart(k) ELSE BasePart(<<k[2], k[1]>>)])

\* max_wh of merge_1x1_to_larger
DefaultMaxWH == 8

\* the variant that sorts by ascending area
candidate_sizes_ascending(max_wh) ==
    LET sizes == [i \in 1..(max_wh * max_wh) |->
                    LET w == 1 + (i - 1) \div max_wh
                        h == 1 + ((i - 1) % max_wh)
                    IN [key |-> <<w * h, Abs(w - h)>>, w |-> w, h |-> h]]
        sorted == StableSort(sizes)
    IN [i \in DOMAIN sorted |-> <<sorted[i].w, sorted[i].h>>]

\* candidate_sizes: every (w, h), sorted by (-area, |w - h|), ties in loop order
candidate_sizes(max_wh) ==
    LET sizes == [i \in 1..(max_wh * max_wh) |->
                    LET w == 1 + (i - 1) \div max_wh
                        h == 1 + ((i - 1) % max_wh)
                    IN [key |-> <<-(w * h), Abs(w - h)>>, w |-> w, h |-> h]]
        sorted == StableSort(sizes)
    IN [i \in DOMAIN sorted |-> <<sorted[i].w, sorted[i].h>>]

Candidates == candidate_sizes(DefaultMaxWH)

(***************************************************************************)
(* opt_from_tencent.py : merge_components_for_layer.                       *)
(***************************************************************************)
S300 == <<"3","0","0">>

\* avail: the candidate sizes the library has, sorted by (-area, -brick first)
AvailEntry(s, part) ==
    [key |-> <<-(s[1] * s[2]), -(IF StartsWith(part, S300) THEN 1 ELSE 0)>>,
     w |-> s[1], h |-> s[2], part |-> part]
\* a library that answers every size with its unit part
AvailOfUnitPart(pick, lib) ==
    StableSort([k \in DOMAIN pick |-> AvailEntry(pick[k], lib[<<1, 1>>])])
AvailOf(pick, lib) == StableSort([k \in DOMAIN pick |-> AvailEntry(pick[k], lib[pick[k]])])
InLibrary(candidates, lib) == SelectSeq(candidates, LAMBDA s : s \in DOMAIN lib)
AvailSizes(candidates) == AvailOf(InLibrary(candidates, get_part_library), get_part_library)

\* the side of the used[][] marker array
UsedSide == 10000
in_range(x, y) == 0 <= x /\ x < UsedSide /\ 0 <= y /\ y < UsedSide

\* the rectangles the loops over gx and gy build for size (w, h), in loop order
RectsOfSize(w, h, minx, maxx, miny, maxy) ==
    LET nx == (maxx - w + 2) - minx
        ny == (maxy - h + 2) - miny
    IN IF w > (maxx - minx + 1) \/ h > (maxy - miny + 1) THEN <<>>
       ELSE [i \in 1..(nx * ny) |->
               LET gx == minx + ((i - 1) \div ny)
                   gy == miny + ((i - 1) % ny)
               IN <<gx, gy, gx + w - 1, gy + h - 1>>]

\* every (size, position) the three nested loops visit for one component, in order
RECURSIVE PlacementsFrom(_, _, _, _, _, _)
PlacementsFrom(avail, i, minx, maxx, miny, maxy) ==
    IF i > Len(avail) THEN <<>>
    ELSE LET rs == RectsOfSize(avail[i].w, avail[i].h, minx, maxx, miny, maxy)
         IN [k \in DOMAIN rs |-> [rect |-> rs[k], part |-> avail[i].part]]
            \o PlacementsFrom(avail, i + 1, minx, maxx, miny, maxy)

\* the acceptance test with the colour comparison of lines 417-420 left out
RectAcceptedAnyColour(grid, z, color, stability, used, cover) ==
    /\ \A c \in cover : in_range(c[1], c[2]) /\ c \notin used
    /\ stability => \A c \in cover : c \in DOMAIN LayerOf(grid, z - 1)

\* the acceptance test with the support check of lines 425-430 left out
RectAcceptedUnsupported(grid, z, color, stability, used, cover) ==
    \A c \in cover :
        /\ in_range(c[1], c[2])
        /\ c \notin used
        /\ (c \in DOMAIN LayerOf(grid, z) => LayerOf(grid, z)[c] = color)

\* the checks on a candidate whose cover lies in the component: range, used
\* marker and colour of every cell, then the optional support check
RectAccepted(grid, z, color, stability, used, cover) ==
    /\ \A c \in cover :
         /\ in_range(c[1], c[2])
         /\ c \notin used
         /\ (c \in DOMAIN LayerOf(grid, z) => LayerOf(grid, z)[c] = color)
    /\ stability => \A c \in cover : c \in DOMAIN LayerOf(grid, z - 1)

\* the first candidate of a component that passes (the loops break on it),
\* as a sequence of at most one placement
FirstOf(ps, ok) == IF ok = {} THEN <<>> ELSE <<ps[Min(ok)]>>
FirstAmong(grid, z, color, stability, comp, used, ps) ==
    FirstOf(ps, {k \in DOMAIN ps :
                   /\ cells_in_rect(ps[k].rect) \subseteq comp
                   /\ RectAccepted(grid, z, color, stability, used,
                                   cells_in_rect(ps[k].rect))})
FirstAccepted(grid, z, color, stability, avail, comp, used) ==
    FirstAmong(grid, z, color, stability, comp, used,
               PlacementsFrom(avail, 1, Min({c[1] : c \in comp}), Max({c[1] : c \in comp}),
                              Min({c[2] : c \in comp}), Max({c[2] : c \in comp})))

\* the loop over the components; st = [used, kept, new_bricks]
\* the end of the loop body: the accepted rectangle is marked used and written
\* out, or (nothing placed) the component is kept
AfterComponent(st, comp, color, hit) ==
    IF hit = <<>>
    THEN [st EXCEPT !.kept = @ \cup comp]
    ELSE [used |-> st.used \cup cells_in_rect(hit[1].rect),
          kept |-> st.kept,
          new_bricks |-> Append(st.new_bricks,
                                <<hit[1].rect, color, normalize_part_number(hit[1].part)>>)]

RECURSIVE MergeLoop(_, _, _, _, _, _, _)
MergeLoop(grid, z, color, stability, avail, comps, st) ==
    IF comps = <<>> THEN st
    ELSE MergeLoop(grid, z, color, stability, avail, Tail(comps),
                   AfterComponent(st, Head(comps), color,
                       FirstAccepted(grid, z, color, stability, avail, Head(comps), st.used)))

\* returns [kept, new_bricks]; a NewBrick is <<rect, color, part_no>>
MergeResult(st) == [kept |-> st.kept, new_bricks |-> st.new_bricks]
merge_components_for_layer(grid, z, color, candidates, stability) ==
    IF DOMAIN LayerOf(grid, z) = {} THEN [kept |-> {}, new_bricks |-> <<>>]
    ELSE MergeResult(MergeLoop(grid, z, color, stability, AvailSizes(candidates),
                               bfs_connected_components(LayerOf(grid, z)),
                               [used |-> {}, kept |-> {}, new_bricks |-> <<>>]))

(***************************************************************************)
(* opt_from_tencent.py : the document.  A line is a record; kind "part" is *)
(* a type-1 line with its tokens, the other kinds pass through.            *)
(***************************************************************************)
S3024Dat == S3024 \o DotDat
IdentityMatrix == <<1, 0, 0, 0, 1, 0, 0, 0, 1>>

UnitLine(color, x, y, z) ==
    [kind |-> "part", color |-> color, x |-> x, y |-> y, z |-> z,
     matrix |-> IdentityMatrix, part |-> S3024Dat]
NoFileLine == [kind |-> "meta", text |-> "0 NOFILE"]
BlankLine == [kind |-> "blank"]
ldraw_comment(text) == [kind |-> "comment", text |-> text]
MergedMarker == ldraw_comment("--- Merged larger bricks/plates ---")

ldraw_subfile(part_no, color, x, y, z) ==
    [kind |-> "part", color |-> color, x |-> x, y |-> y, z |-> z,
     matrix |-> IdentityMatrix, part |-> ensure_part_extension(part_no)]

\* one_by_one_ids of extract_bricks_from_mpd
one_by_one_ids ==
    {normalize_part_number(get_part_library[k]) : k \in {<<1, 1>>} \cap DOMAIN get_part_library}

\* the keys (z, (x, y), color) of the bricks dict, in insertion order
RECURSIVE extract_bricks_from_mpd(_)
extract_bricks_from_mpd(lines) ==
    IF lines = <<>> THEN <<>>
    ELSE LET rest == extract_bricks_from_mpd(SubSeq(lines, 1, Len(lines) - 1))
             l == lines[Len(lines)]
         IN IF l.kind # "part" \/ normalize_part_number(l.part) \notin one_by_one_ids
            THEN rest
            ELSE LET key == <<l.z, <<l.x, l.y>>, l.color>>
                 IN IF key \in Range(rest) THEN rest ELSE Append(rest, key)

\* grid_by_z[z][(x, y)] = color, a later brick of a cell overwriting its colour
RECURSIVE build_voxel_grid(_)
build_voxel_grid(bricks) ==
    IF bricks = <<>> THEN [z \in {} |-> EmptyLayer]
    ELSE LET g == build_voxel_grid(SubSeq(bricks, 1, Len(bricks) - 1))
             b == bricks[Len(bricks)]
             old == LayerOf(g, b[1])
             new == [c \in DOMAIN old \cup {b[2]} |-> IF c = b[2] THEN b[3] ELSE old[c]]
         IN [z \in DOMAIN g \cup {b[1]} |-> IF z = b[1] THEN new ELSE g[z]]

\* the keys of lib_by_part of build_merged_mpd, and those it maps to (1, 1)
\* (no other size of the library shares the part number of (1, 1))
LibPartNumbers == {normalize_part_number(get_part_library[k]) : k \in DOMAIN get_part_library}
LibUnitParts ==
    {p \in LibPartNumbers :
        {k \in DOMAIN get_part_library : normalize_part_number(get_part_library[k]) = p}
          = {<<1, 1>>}}

\* the integers of a set in ascending order
RECURSIVE SortedInts(_)
SortedInts(S) == IF S = {} THEN <<>> ELSE <<Min(S)>> \o SortedInts(S \ {Min(S)})

\* the appended lines of one layer: one line per new brick, at (x0, y0, z), then a blank
MergedLinesOfLayer(z, bricks) ==
    [i \in DOMAIN bricks |->
        ldraw_subfile(bricks[i][3], bricks[i][2], bricks[i][1][1], bricks[i][1][2], z)]
    \o <<BlankLine>>

RECURSIVE MergedLinesFrom(_, _)
MergedLinesFrom(zs, results) ==
    IF zs = <<>> THEN <<>>
    ELSE MergedLinesOfLayer(Head(zs), results[Head(zs)].bricks)
         \o MergedLinesFrom(Tail(zs), results)

\* layer_results: z -> [kept, bricks]; the result is the first sub-model's lines
kept_global(layer_results) ==
    UNION {{<<z, c[1], c[2]>> : c \in layer_results[z].kept} : z \in DOMAIN layer_results}

\* the scan of the lines: a unit part stays only if its cell is in the kept set
RetainedLines(lines, kept) ==
    SelectSeq(lines, LAMBDA l : \/ l.kind # "part"
                                \/ normalize_part_number(l.part) \notin LibUnitParts
                                \/ <<l.z, l.x, l.y>> \in kept)

build_merged_mpd(lines, layer_results) ==
    RetainedLines(lines, kept_global(layer_results))
    \o <<BlankLine, MergedMarker>>
    \o MergedLinesFrom(SortedInts(DOMAIN layer_results), layer_results)

(***************************************************************************)
(* Numbers in the text of a line.  A coordinate is held in thousandths of  *)
(* an LDU (the resolution of the .3f the writers use), a token is the      *)
(* sequence of its characters.  The documents of the model carry plain     *)
(* decimal numbers of at most three decimals.                              *)
(***************************************************************************)
Digits == <<"0","1","2","3","4","5","6","7","8","9">>
DigitVal == Stored([c \in Range(Digits) |-> (CHOOSE i \in DOMAIN Digits : Digits[i] = c) - 1])
Scale == 1000

RECURSIVE DigitsToNat(_)
DigitsToNat(s) ==
    IF s = <<>> THEN 0
    ELSE 10 * DigitsToNat(SubSeq(s, 1, Len(s) - 1)) + DigitVal[s[Len(s)]]

RECURSIVE NatToDigits(_)
NatToDigits(n) ==
    IF n < 10 THEN <<Digits[n + 1]>>
    ELSE NatToDigits(n \div 10) \o <<Digits[(n % 10) + 1]>>

\* float(token): ok is FALSE where Python raises ValueError
Unsigned(s) == IF s # <<>> /\ Head(s) \in {"+", "-"} THEN Tail(s) ELSE s
DotsOf(u) == {i \in DOMAIN u : u[i] = "."}
FloatOk(u) ==
    /\ Cardinality(DotsOf(u)) <= 1
    /\ \A i \in DOMAIN u : i \in DotsOf(u) \/ u[i] \in DOMAIN DigitVal
    /\ Len(u) > Cardinality(DotsOf(u))
IntDigits(u) == IF DotsOf(u) = {} THEN u ELSE SubSeq(u, 1, Min(DotsOf(u)) - 1)
FracDigits(u) == IF DotsOf(u) = {} THEN <<>> ELSE SubSeq(u, Min(DotsOf(u)) + 1, Len(u))
FloatMagnitude(u) ==
    Scale * DigitsToNat(IntDigits(u))
      + DigitsToNat(SubSeq(FracDigits(u) \o <<"0","0","0">>, 1, 3))
float(s) ==
    IF ~FloatOk(Unsigned(s)) THEN [ok |-> FALSE, v |-> 0]
    ELSE [ok |-> TRUE,
          v |-> IF s[1] = "-" THEN -FloatMagnitude(Unsigned(s))
                ELSE FloatMagnitude(Unsigned(s))]

\* f"{v:.3f}"
Pad3(d) == SubSeq(<<"0","0">>, 1, 3 - Len(d)) \o d
Format3f(v) ==
    (IF v < 0 THEN <<"-">> ELSE <<>>)
      \o NatToDigits(Abs(v) \div Scale) \o <<".">> \o Pad3(NatToDigits(Abs(v) % Scale))

\* f"{v:g}" for the magnitudes below 10^6 with at most three decimals
RECURSIVE RStripChars(_, _)
RStripChars(s, chars) ==
    IF s # <<>> /\ s[Len(s)] \in chars THEN RStripChars(SubSeq(s, 1, Len(s) - 1), chars)
    ELSE s
RECURSIVE LStripChars(_, _)
LStripChars(s, chars) ==
    IF s # <<>> /\ Head(s) \in chars THEN LStripChars(Tail(s), chars) ELSE s
FormatG(v) ==
    (IF v < 0 THEN <<"-">> ELSE <<>>)
      \o NatToDigits(Abs(v) \div Scale)
      \o (IF Abs(v) % Scale = 0 THEN <<>>
          ELSE <<".">> \o RStripChars(Pad3(NatToDigits(Abs(v) % Scale)), {"0"}))

(***************************************************************************)
(* opt_v3.py : the part library and its two lookups.                       *)
(***************************************************************************)
S3005 == <<"3","0","0","5">>
S3004 == <<"3","0","0","4">>
S3622 == <<"3","6","2","2">>
S3010 == <<"3","0","1","0">>
S3003 == <<"3","0","0","3">>
S3001 == <<"3","0","0","1">>

\* the dict literal, in source order
PART_LIBRARY ==
    << [key |-> <<"plate", 1, 1>>, part |-> S3024 \o DotDat],
       [key |-> <<"plate", 2, 1>>, part |-> S3023 \o DotDat],
       [key |-> <<"plate", 1, 2>>, part |-> S3023 \o DotDat],
       [key |-> <<"plate", 3, 1>>, part |-> S3623 \o DotDat],
       [key |-> <<"plate", 1, 3>>, part |-> S3623 \o DotDat],
       [key |-> <<"plate", 4, 1>>, part |-> S3710 \o DotDat],
       [key |-> <<"plate", 1, 4>>, part |-> S3710 \o DotDat],
       [key |-> <<"plate", 2, 2>>, part |-> S3022 \o DotDat],
       [key |-> <<"plate", 2, 3>>, part |-> S3021 \o DotDat],
       [key |-> <<"plate", 3, 2>>, part |-> S3021 \o DotDat],
       [key |-> <<"plate", 2, 4>>, part |-> S3020 \o DotDat],
       [key |-> <<"plate", 4, 2>>, part |-> S3020 \o DotDat],
       [key |-> <<"plate", 4, 4>>, part |-> S3031 \o DotDat],
       [key |-> <<"brick", 1, 1>>, part |-> S3005 \o DotDat],
       [key |-> <<"brick", 2, 1>>, part |-> S3004 \o DotDat],
       [key |-> <<"brick", 1, 2>>, part |-> S3004 \o DotDat],
       [key |-> <<"brick", 3, 1>>, part |-> S3622 \o DotDat],
       [key |-> <<"brick", 1, 3>>, part |-> S3622 \o DotDat],
       [key |-> <<"brick", 4, 1>>, part |-> S3010 \o DotDat],
       [key |-> <<"brick", 1, 4>>, part |-> S3010 \o DotDat],
       [key |-> <<"brick", 2, 2>>, part |-> S3003 \o DotDat],
       [key |-> <<"brick", 2, 4>>, part |-> S3001 \o DotDat],
       [key |-> <<"brick", 4, 2>>, part |-> S3001 \o DotDat] >>
LibraryKeys == {PART_LIBRARY[i].key : i \in DOMAIN PART_LIBRARY}

\* the two keys the loop of lines 43-45 writes for an entry
NumberKeys(part_no) == {StrLower(part_no), RStripChars(StrLower(part_no), Range(DotDat))}
\* the dict after the loop: a later entry overwrites an earlier one
NUMBER_TO_DESCRIPTOR ==
    Stored([t \in UNION {NumberKeys(PART_LIBRARY[i].part) : i \in DOMAIN PART_LIBRARY} |->
               PART_LIBRARY[Max({i \in DOMAIN PART_LIBRARY :
                                   t \in NumberKeys(PART_LIBRARY[i].part)})].key])

\* str.replace("\\", "/") and rsplit("/", 1)[-1]
ReplaceBackslash(s) == [i \in DOMAIN s |-> IF s[i] = "\\" THEN "/" ELSE s[i]]
AfterLastSlash(s) ==
    IF \E i \in DOMAIN s : s[i] = "/"
    THEN SubSeq(s, Max({i \in DOMAIN s : s[i] = "/"}) + 1, Len(s))
    ELSE s
_normalize_token(token) == AfterLastSlash(ReplaceBackslash(StrLower(StrStrip(token))))

\* ALIAS_PATTERN.match: (plate|brick)_(\d+)x(\d+)$ ; <<>> is no match
PlatePrefix == <<"p","l","a","t","e","_">>
BrickPrefix == <<"b","r","i","c","k","_">>
IsNumber(s) == s # <<>> /\ \A i \in DOMAIN s : s[i] \in DOMAIN DigitVal
AliasSizes(family, rest) ==
    IF \E i \in DOMAIN rest :
           /\ rest[i] = "x"
           /\ IsNumber(SubSeq(rest, 1, i - 1))
           /\ IsNumber(SubSeq(rest, i + 1, Len(rest)))
    THEN LET i == CHOOSE j \in DOMAIN rest : rest[j] = "x"
         IN << <<family, DigitsToNat(SubSeq(rest, 1, i - 1)),
                 DigitsToNat(SubSeq(rest, i + 1, Len(rest)))>> >>
    ELSE <<>>
AliasMatch(token) ==
    IF StartsWith(token, PlatePrefix)
    THEN AliasSizes("plate", SubSeq(token, Len(PlatePrefix) + 1, Len(token)))
    ELSE IF StartsWith(token, BrickPrefix)
    THEN AliasSizes("brick", SubSeq(token, Len(BrickPrefix) + 1, Len(token)))
    ELSE <<>>

\* a resolution that knows the aliases only and no part number
ResolveAliasOnly(token) ==
    IF AliasMatch(token) # <<>> /\ AliasMatch(token)[1] \in LibraryKeys THEN AliasMatch(token)
    ELSE <<>>

\* Optional results: <<>> is None, <<v>> is the value v
ResolveToken(token) ==
    IF token = <<>> THEN <<>>
    ELSE IF token \in DOMAIN NUMBER_TO_DESCRIPTOR THEN <<NUMBER_TO_DESCRIPTOR[token]>>
    ELSE IF AliasMatch(token) # <<>> /\ AliasMatch(token)[1] \in LibraryKeys THEN AliasMatch(token)
    ELSE IF EndsWith(token, DotDat)
            /\ SubSeq(token, 1, Len(token) - 4) \in DOMAIN NUMBER_TO_DESCRIPTOR
    THEN <<NUMBER_TO_DESCRIPTOR[SubSeq(token, 1, Len(token) - 4)]>>
    ELSE <<>>
_resolve_descriptor(part_type) == ResolveToken(_normalize_token(part_type))

_lookup_part_number(family, studs_x, studs_y) ==
    IF <<family, studs_x, studs_y>> \in LibraryKeys
    THEN <<PART_LIBRARY[CHOOSE i \in DOMAIN PART_LIBRARY :
                           PART_LIBRARY[i].key = <<family, studs_x, studs_y>>].part>>
    ELSE <<>>

part_to_ldraw(part_type) ==
    IF _resolve_descriptor(part_type) = <<>> THEN <<>>
    ELSE _lookup_part_number(_resolve_descriptor(part_type)[1][1],
                             _resolve_descriptor(part_type)[1][2],
                             _resolve_descriptor(part_type)[1][3])

(***************************************************************************)
(* color_table.py and the colour functions of opt_v3.py.                   *)
(***************************************************************************)
\* the dict LEGO_COLORS in iteration order
LEGO_COLORS ==
    <<[id |-> <<"0">>, rgb |-> <<27, 42, 52>>],
       [id |-> <<"1">>, rgb |-> <<30, 90, 168>>],
       [id |-> <<"2">>, rgb |-> <<0, 133, 43>>],
       [id |-> <<"3">>, rgb |-> <<6, 157, 159>>],
       [id |-> <<"4">>, rgb |-> <<180, 0, 0>>],
       [id |-> <<"5">>, rgb |-> <<211, 53, 157>>],
       [id |-> <<"6">>, rgb |-> <<84, 51, 36>>],
       [id |-> <<"7">>, rgb |-> <<138, 146, 141>>],
       [id |-> <<"8">>, rgb |-> <<84, 89, 85>>],
       [id |-> <<"9">>, rgb |-> <<151, 203, 217>>],
       [id |-> <<"1","0">>, rgb |-> <<88, 171, 65>>],
       [id |-> <<"1","1">>, rgb |-> <<0, 170, 164>>],
       [id |-> <<"1","2">>, rgb |-> <<240, 109, 97>>],
       [id |-> <<"1","3">>, rgb |-> <<246, 169, 187>>],
       [id |-> <<"1","4">>, rgb |-> <<250, 200, 10>>],
       [id |-> <<"1","5">>, rgb |-> <<244, 244, 244>>],
       [id |-> <<"1","7">>, rgb |-> <<173, 217, 168>>],
       [id |-> <<"1","8">>, rgb |-> <<255, 214, 127>>],
       [id |-> <<"1","9">>, rgb |-> <<215, 186, 140>>],
       [id |-> <<"2","0">>, rgb |-> <<175, 190, 214>>],
       [id |-> <<"2","2">>, rgb |-> <<103, 31, 129>>],
       [id |-> <<"2","3">>, rgb |-> <<14, 62, 154>>],
       [id |-> <<"2","5">>, rgb |-> <<214, 121, 35>>],
       [id |-> <<"2","6">>, rgb |-> <<144, 31, 118>>],
       [id |-> <<"2","7">>, rgb |-> <<165, 202, 24>>],
       [id |-> <<"2","8">>, rgb |-> <<137, 125, 98>>],
       [id |-> <<"2","9">>, rgb |-> <<255, 158, 205>>],
       [id |-> <<"3","0">>, rgb |-> <<160, 110, 185>>],
       [id |-> <<"3","1">>, rgb |-> <<205, 164, 222>>],
       [id |-> <<"6","8">>, rgb |-> <<253, 195, 131>>],
       [id |-> <<"6","9">>, rgb |-> <<138, 18, 168>>],
       [id |-> <<"7","0">>, rgb |-> <<95, 49, 9>>],
       [id |-> <<"7","1">>, rgb |-> <<150, 150, 150>>],
       [id |-> <<"7","2">>, rgb |-> <<100, 100, 100>>],
       [id |-> <<"7","3">>, rgb |-> <<115, 150, 200>>],
       [id |-> <<"7","4">>, rgb |-> <<127, 196, 117>>],
       [id |-> <<"7","7">>, rgb |-> <<254, 204, 207>>],
       [id |-> <<"7","8">>, rgb |-> <<255, 201, 149>>],
       [id |-> <<"8","4">>, rgb |-> <<170, 125, 85>>],
       [id |-> <<"8","5">>, rgb |-> <<68, 26, 145>>],
       [id |-> <<"8","6">>, rgb |-> <<123, 93, 65>>],
       [id |-> <<"8","9">>, rgb |-> <<28, 88, 167>>],
       [id |-> <<"9","2">>, rgb |-> <<187, 128, 90>>],
       [id |-> <<"1","0","0">>, rgb |-> <<249, 183, 165>>],
       [id |-> <<"1","1","0">>, rgb |-> <<38, 70, 154>>],
       [id |-> <<"1","1","2">>, rgb |-> <<72, 97, 172>>],
       [id |-> <<"1","1","5">>, rgb |-> <<183, 212, 37>>],
       [id |-> <<"1","1","8">>, rgb |-> <<156, 214, 204>>],
       [id |-> <<"1","2","0">>, rgb |-> <<222, 234, 146>>],
       [id |-> <<"1","2","3">>, rgb |-> <<238, 84, 52>>],
       [id |-> <<"1","2","5">>, rgb |-> <<249, 167, 119>>],
       [id |-> <<"1","2","8">>, rgb |-> <<173, 97, 64>>],
       [id |-> <<"1","5","1">>, rgb |-> <<200, 200, 200>>],
       [id |-> <<"1","9","1">>, rgb |-> <<252, 172, 0>>],
       [id |-> <<"2","1","2">>, rgb |-> <<157, 195, 247>>],
       [id |-> <<"2","1","3">>, rgb |-> <<71, 111, 182>>],
       [id |-> <<"2","1","6">>, rgb |-> <<135, 43, 23>>],
       [id |-> <<"2","1","8">>, rgb |-> <<142, 85, 151>>],
       [id |-> <<"2","1","9">>, rgb |-> <<86, 78, 157>>],
       [id |-> <<"2","2","0">>, rgb |-> <<145, 149, 202>>],
       [id |-> <<"2","2","6">>, rgb |-> <<255, 236, 108>>],
       [id |-> <<"2","3","2">>, rgb |-> <<119, 201, 216>>],
       [id |-> <<"2","7","2">>, rgb |-> <<25, 50, 90>>],
       [id |-> <<"2","8","8">>, rgb |-> <<0, 69, 26>>],
       [id |-> <<"2","9","5">>, rgb |-> <<255, 148, 194>>],
       [id |-> <<"3","0","8">>, rgb |-> <<53, 33, 0>>],
       [id |-> <<"3","1","3">>, rgb |-> <<171, 217, 255>>],
       [id |-> <<"3","2","0">>, rgb |-> <<114, 0, 18>>],
       [id |-> <<"3","2","1">>, rgb |-> <<70, 155, 195>>],
       [id |-> <<"3","2","2">>, rgb |-> <<104, 195, 226>>],
       [id |-> <<"3","2","3">>, rgb |-> <<211, 242, 234>>],
       [id |-> <<"3","2","6">>, rgb |-> <<226, 249, 154>>],
       [id |-> <<"3","3","0">>, rgb |-> <<119, 119, 78>>],
       [id |-> <<"3","3","5">>, rgb |-> <<136, 96, 94>>],
       [id |-> <<"3","5","1">>, rgb |-> <<247, 133, 177>>],
       [id |-> <<"3","5","3">>, rgb |-> <<255, 109, 119>>],
       [id |-> <<"3","6","6">>, rgb |-> <<216, 109, 44>>],
       [id |-> <<"3","6","8">>, rgb |-> <<237, 255, 33>>],
       [id |-> <<"3","7","0">>, rgb |-> <<117, 89, 69>>],
       [id |-> <<"3","7","3">>, rgb |-> <<117, 101, 125>>],
       [id |-> <<"3","7","8">>, rgb |-> <<112, 142, 124>>],
       [id |-> <<"3","7","9">>, rgb |-> <<112, 129, 154>>] >>

HexDigits == <<"0","1","2","3","4","5","6","7","8","9","a","b","c","d","e","f">>
HexVal ==
    Stored([c \in Range(HexDigits) \cup Range(StrUpper(HexDigits)) |->
               (CHOOSE i \in DOMAIN HexDigits : HexDigits[i] = LowerChar(c)) - 1])

\* str.zfill: the zeros go after a leading sign
Zeros(n) == [i \in 1..n |-> "0"]
zfill(s, width) ==
    IF Len(s) >= width THEN s
    ELSE IF s # <<>> /\ Head(s) \in {"+", "-"}
    THEN <<Head(s)>> \o Zeros(width - Len(s)) \o Tail(s)
    ELSE Zeros(width - Len(s)) \o s

\* int(pair, 16) of a two-character slice: ok is FALSE where Python raises
\* ValueError (a sign followed by one digit is a number)
HexPair(p) ==
    IF p[1] \in DOMAIN HexVal /\ p[2] \in DOMAIN HexVal
    THEN [ok |-> TRUE, v |-> 16 * HexVal[p[1]] + HexVal[p[2]]]
    ELSE IF p[1] \in {"+", "-"} /\ p[2] \in DOMAIN HexVal
    THEN [ok |-> TRUE, v |-> IF p[1] = "-" THEN -HexVal[p[2]] ELSE HexVal[p[2]]]
    ELSE [ok |-> FALSE, v |-> 0]

\* lines 54-64: the six characters that are read
HexSix(s) ==
    IF Len(s) < 6 THEN zfill(s, 6)
    ELSE IF Len(s) > 6 THEN SubSeq(s, Len(s) - 5, Len(s))
    ELSE s
HexBody(hex_color) ==
    HexSix(IF Len(LStripChars(LStripChars(hex_color, {"#"}), {"0", "x"})) = 7
           THEN Tail(LStripChars(LStripChars(hex_color, {"#"}), {"0", "x"}))
           ELSE LStripChars(LStripChars(hex_color, {"#"}), {"0", "x"}))
RgbOfSix(h) ==
    IF HexPair(SubSeq(h, 1, 2)).ok /\ HexPair(SubSeq(h, 3, 4)).ok /\ HexPair(SubSeq(h, 5, 6)).ok
    THEN <<HexPair(SubSeq(h, 1, 2)).v, HexPair(SubSeq(h, 3, 4)).v, HexPair(SubSeq(h, 5, 6)).v>>
    ELSE <<0, 0, 0>>
hex_to_rgb(hex_color) == RgbOfSix(HexBody(hex_color))

\* the square of color_distance (the square root keeps the order)
color_distance(c1, c2) ==
    (c1[1] - c2[1]) * (c1[1] - c2[1]) + (c1[2] - c2[2]) * (c1[2] - c2[2])
      + (c1[3] - c2[3]) * (c1[3] - c2[3])

\* the variant that keeps the last item with the least key
LastLeast(ds) == Max({i \in DOMAIN ds : \A j \in DOMAIN ds : ds[i] <= ds[j]})

\* min(..., key=...): the first item of the iteration with the least key
FirstLeast(ds) == Min({i \in DOMAIN ds : \A j \in DOMAIN ds : ds[i] <= ds[j]})
match_lego_color(rgb) ==
    LEGO_COLORS[FirstLeast([i \in DOMAIN LEGO_COLORS |->
                               color_distance(rgb, LEGO_COLORS[i].rgb)])].id

(***************************************************************************)
(* opt_v3.py : lines and components.  A line is the sequence of its        *)
(* tokens; its text is the tokens joined by single blanks.  A component    *)
(* is the dict parse_mpd_line returns; line_index is <<>> while the key is *)
(* absent.                                                                 *)
(***************************************************************************)
STUD_PITCH_LDU == 20 * Scale
MERGE_TOLERANCE == Scale \div 1000
AXIS_SWITCH_UNIT == 48 * Scale

One == <<"1">>
format_type1_line(color, position, rotation, part_type) ==
    <<One, color, Format3f(position[1]), Format3f(position[2]), Format3f(position[3])>>
      \o [i \in DOMAIN rotation |-> FormatG(rotation[i])] \o <<part_type>>

\* the colour tokens of the model's documents; their quantisation is computed once
ModelColours == {<<"2","1">>, <<"4">>}
QuantisedColour ==
    Stored([t \in ModelColours \cup {match_lego_color(hex_to_rgb(c)) : c \in ModelColours} |->
               match_lego_color(hex_to_rgb(t))])
LegoColourOf(color) ==
    IF color \in DOMAIN QuantisedColour THEN QuantisedColour[color]
    ELSE match_lego_color(hex_to_rgb(color))

NoComponent ==
    [color |-> <<>>, position |-> <<0, 0, 0>>, rotation |-> <<>>, part_type |-> <<>>,
     original_line |-> <<>>, line_index |-> <<>>]
\* status "none" is the result None, "IndexError" the exception of tokens[14]
parse_mpd_line(line) ==
    IF Len(line) < 2 \/ line[1] # One THEN [status |-> "none", comp |-> NoComponent]
    ELSE IF Len(line) < 14 THEN [status |-> "none", comp |-> NoComponent]
    ELSE IF \E i \in 3..14 : ~float(line[i]).ok THEN [status |-> "none", comp |-> NoComponent]
    ELSE IF Len(line) < 15 THEN [status |-> "IndexError", comp |-> NoComponent]
    ELSE [status |-> "ok",
          comp |-> [color |-> LegoColourOf(line[2]),
                    position |-> <<float(line[3]).v, float(line[4]).v, float(line[5]).v>>,
                    rotation |-> [i \in 1..9 |-> float(line[i + 5]).v],
                    part_type |-> line[15],
                    original_line |-> [line EXCEPT ![2] = LegoColourOf(line[2])],
                    line_index |-> <<>>]]

\* position[axis] for the 0-based axis of the code
Along(comp, axis) == comp.position[axis + 1]

\* the values of the dict group_by_color_and_position returns, in the order
\* of the first appearance of their keys (round(v, 3) leaves a multiple of 0.001)
GroupKey(comp, axis) ==
    <<comp.color, comp.position[2], comp.position[IF axis = 0 THEN 3 ELSE 1]>>
RECURSIVE SortBuckets(_, _, _)
SortBuckets(comps, axis, values) ==
    IF values = <<>> THEN <<>>
    ELSE SelectSeq(comps, LAMBDA c : Along(c, axis) = Head(values))
         \o SortBuckets(comps, axis, Tail(values))
SortByAxis(comps, axis) ==
    SortBuckets(comps, axis, SortedInts({Along(comps[i], axis) : i \in DOMAIN comps}))
FirstOfKey(components, axis) ==
    SortedInts({i \in DOMAIN components :
                  \A j \in 1..(i - 1) : GroupKey(components[j], axis) # GroupKey(components[i], axis)})
group_by_color_and_position(components, axis) ==
    [k \in DOMAIN FirstOfKey(components, axis) |->
        SortByAxis(SelectSeq(components,
                             LAMBDA c : GroupKey(c, axis)
                                          = GroupKey(components[FirstOfKey(components, axis)[k]], axis)),
                   axis)]

_axis_for_layer(layer_height) == IF layer_height % AXIS_SWITCH_UNIT = 0 THEN 0 ELSE 2

_are_adjacent(prev_comp, next_comp, axis, axis_studs) ==
    /\ Abs(Abs(Along(next_comp, axis) - Along(prev_comp, axis)) - axis_studs * STUD_PITCH_LDU)
         <= MERGE_TOLERANCE
    /\ \A idx \in {0, 1, 2} \ {axis} :
         Abs(Along(prev_comp, idx) - Along(next_comp, idx)) <= MERGE_TOLERANCE
    /\ prev_comp.color = next_comp.color
    /\ prev_comp.part_type = next_comp.part_type

\* sorted(lengths, reverse=True)
Reverse(s) == [i \in DOMAIN s |-> s[Len(s) + 1 - i]]
_available_lengths_for_axis(family, other_axis_studs, axis) ==
    Reverse(SortedInts(
        {k[2] : k \in {c \in LibraryKeys : c[1] = family /\ axis = 0 /\ c[3] = other_axis_studs}}
        \cup
        {k[3] : k \in {c \in LibraryKeys : c[1] = family /\ axis = 2 /\ c[2] = other_axis_studs}}))

\* the fixed rotation of a part merged along axis 2
QuarterTurn == <<0, 0, Scale, 0, Scale, 0, -Scale, 0, 0>>
\* a merged part left at the position of its first component
CombinedPositionAtFirst(first, last, axis) == first.position
\* the midpoint is exact for the positions of the model (multiples of 0.002)
CombinedPosition(first, last, axis) ==
    [first.position EXCEPT ![axis + 1] = (Along(first, axis) + Along(last, axis)) \div 2]
CombinedRotation(first, axis) == IF axis = 2 THEN QuarterTurn ELSE first.rotation
_build_combined_component(segment, axis, part_no) ==
    [color |-> segment[1].color,
     position |-> CombinedPosition(segment[1], segment[Len(segment)], axis),
     rotation |-> CombinedRotation(segment[1], axis),
     part_type |-> part_no,
     original_line |-> format_type1_line(segment[1].color,
                                         CombinedPosition(segment[1], segment[Len(segment)], axis),
                                         CombinedRotation(segment[1], axis), part_no),
     line_index |-> <<>>]

\* the lengths tried from the shortest up
ChosenLengthShortestFirst(available_lengths, axis_studs, remaining) ==
    Reverse(SelectSeq(available_lengths,
                      LAMBDA length : /\ length % axis_studs = 0
                                      /\ length \div axis_studs > 0
                                      /\ length \div axis_studs <= remaining))

\* the lengths that evenly divide the number of remaining components
ChosenLengthDividing(available_lengths, axis_studs, remaining) ==
    SelectSeq(available_lengths,
              LAMBDA length : /\ length % axis_studs = 0
                              /\ length \div axis_studs > 0
                              /\ remaining % (length \div axis_studs) = 0)

\* the for loop of lines 266-274: the first available length that the part
\* length divides and that the remaining components can fill; <<>> if none
ChosenLength(available_lengths, axis_studs, remaining) ==
    SelectSeq(available_lengths,
              LAMBDA length : /\ length % axis_studs = 0
                              /\ length \div axis_studs > 0
                              /\ length \div axis_studs <= remaining)

\* the part number of a chosen length (lines 282-286)
SegmentPart(family, axis, chosen_length, other_axis_studs) ==
    IF axis = 0 THEN _lookup_part_number(family, chosen_length, other_axis_studs)
    ELSE _lookup_part_number(family, other_axis_studs, chosen_length)

\* the while loop of combine_group from position idx (1-based)
RECURSIVE CombineFrom(_, _, _, _, _, _, _)
CombineFrom(group, idx, axis, family, axis_studs, other_axis_studs, available_lengths) ==
    IF idx > Len(group) THEN <<>>
    ELSE LET chosen == ChosenLength(available_lengths, axis_studs, Len(group) - idx + 1)
         IN IF chosen = <<>> \/ chosen[1] \div axis_studs <= 1
               \/ SegmentPart(family, axis, chosen[1], other_axis_studs) = <<>>
            THEN <<group[idx]>>
                 \o CombineFrom(group, idx + 1, axis, family, axis_studs, other_axis_studs,
                                available_lengths)
            ELSE <<_build_combined_component(
                       SubSeq(group, idx, idx + (chosen[1] \div axis_studs) - 1), axis,
                       SegmentPart(family, axis, chosen[1], other_axis_studs)[1])>>
                 \o CombineFrom(group, idx + (chosen[1] \div axis_studs), axis, family,
                                axis_studs, other_axis_studs, available_lengths)

CombineResolved(group, axis, family, axis_studs, other_axis_studs) ==
    IF axis_studs <= 0 \/ other_axis_studs <= 0 THEN group
    ELSE IF _available_lengths_for_axis(family, other_axis_studs, axis) = <<>> THEN group
    ELSE CombineFrom(group, 1, axis, family, axis_studs, other_axis_studs,
                     _available_lengths_for_axis(family, other_axis_studs, axis))
CombineWith(group, axis, d) ==
    IF d = <<>> THEN group
    ELSE CombineResolved(group, axis, d[1][1],
                         IF axis = 0 THEN d[1][2] ELSE d[1][3],
                         IF axis = 0 THEN d[1][3] ELSE d[1][2])
combine_group(group, axis, part_type) ==
    IF Len(group) <= 1 THEN group ELSE CombineWith(group, axis, _resolve_descriptor(part_type))

\* the loop of merge_in_line: the groups of consecutive adjacent components
RECURSIVE SplitGroups(_, _, _, _, _)
SplitGroups(components, i, axis, axis_studs, groups) ==
    IF i > Len(components) THEN groups
    ELSE IF _are_adjacent(groups[Len(groups)][Len(groups[Len(groups)])], components[i],
                          axis, axis_studs)
    THEN SplitGroups(components, i + 1, axis, axis_studs,
                     [groups EXCEPT ![Len(groups)] = Append(@, components[i])])
    ELSE SplitGroups(components, i + 1, axis, axis_studs, Append(groups, <<components[i]>>))

RECURSIVE Flatten(_)
Flatten(ss) == IF ss = <<>> THEN <<>> ELSE Head(ss) \o Flatten(Tail(ss))

MergeGroups(groups, axis, part_type) ==
    Flatten([k \in DOMAIN groups |-> combine_group(groups[k], axis, part_type)])
MergeResolved(components, axis, part_type, d) ==
    IF d = <<>> THEN [status |-> "ValueError", merged |-> <<>>]
    ELSE IF axis \notin {0, 2} THEN [status |-> "ValueError", merged |-> <<>>]
    ELSE IF components = <<>> THEN [status |-> "ok", merged |-> <<>>]
    ELSE [status |-> "ok",
          merged |-> MergeGroups(SplitGroups(components, 2, axis,
                                             IF axis = 0 THEN d[1][2] ELSE d[1][3],
                                             << <<components[1]>> >>),
                                 axis, part_type)]
\* a merge that takes a part type it cannot resolve for "nothing to merge"
merge_in_line_unchecked(components, axis, part_type) ==
    IF _resolve_descriptor(part_type) = <<>> THEN [status |-> "ok", merged |-> components]
    ELSE MergeResolved(components, axis, part_type, _resolve_descriptor(part_type))
merge_in_line(components, axis, part_type) ==
    MergeResolved(components, axis, part_type, _resolve_descriptor(part_type))

(***************************************************************************)
(* opt_v3.py : optimize_mpd_file.  A file is [exists, lines, eof_newline]; *)
(* eof_newline tells whether the last line ends with a newline.  The axis  *)
(* argument is <<>> for None and <<a>> for the integer a.                  *)
(***************************************************************************)
OptimizedMarker ==
    << <<"0">>, <<"/","/">>, <<"-","-","-">>, <<"O","p","t","i","m","i","z","e","d">>,
       <<"c","o","m","p","o","n","e","n","t","s">>, <<"-","-","-">> >>

\* the lines 0-based indexes of which are target components, ascending
TargetIndexes(parsed, target_part) ==
    SortedInts({i \in DOMAIN parsed :
                  /\ parsed[i].status = "ok"
                  /\ StrLower(parsed[i].comp.part_type) = StrLower(target_part)})
ComponentsOf(parsed, targets) ==
    [k \in DOMAIN targets |-> [parsed[targets[k]].comp EXCEPT !.line_index = <<targets[k] - 1>>]]

\* the keys of the dict layers in insertion order
LayerHeights(components) ==
    SortedInts({i \in DOMAIN components :
                  \A j \in 1..(i - 1) : components[j].position[2] # components[i].position[2]})
CurrentAxis(axis, layer_height) ==
    IF axis # <<>> /\ axis[1] \in {0, 2} THEN axis[1] ELSE _axis_for_layer(layer_height)
MergedOfGroups(groups, axis, part_type) ==
    Flatten([k \in DOMAIN groups |-> merge_in_line(groups[k], axis, part_type).merged])
OptimizedOfLayer(layer_components, current_axis, part_type) ==
    MergedOfGroups(group_by_color_and_position(layer_components, current_axis),
                   current_axis, part_type)
OptimizedOf(components, heights, axis, part_type) ==
    Flatten([k \in DOMAIN heights |->
                OptimizedOfLayer(
                    SelectSeq(components,
                              LAMBDA c : c.position[2] = components[heights[k]].position[2]),
                    CurrentAxis(axis, components[heights[k]].position[2]),
                    part_type)])
\* a rewrite whenever the document has a target line
made_changes_always(optimized, target_part) == optimized # <<>>
made_changes(optimized, target_part) ==
    \E k \in DOMAIN optimized :
        \/ optimized[k].line_index = <<>>
        \/ StrLower(optimized[k].part_type) # StrLower(target_part)

\* writelines: the text of a last line that had no newline runs into the
\* first appended line
KeptLines(lines, targets) ==
    [k \in DOMAIN SortedInts(DOMAIN lines \ Range(targets)) |->
        lines[SortedInts(DOMAIN lines \ Range(targets))[k]]]
JoinTexts(a, b) ==
    IF a = <<>> THEN b
    ELSE IF b = <<>> THEN a
    ELSE SubSeq(a, 1, Len(a) - 1) \o <<a[Len(a)] \o b[1]>> \o Tail(b)
WriteLines(file, targets, appended) ==
    IF ~file.eof_newline /\ Len(file.lines) \in DOMAIN file.lines \ Range(targets)
    THEN SubSeq(KeptLines(file.lines, targets), 1, Len(KeptLines(file.lines, targets)) - 1)
         \o <<JoinTexts(file.lines[Len(file.lines)], Head(appended))>> \o Tail(appended)
    ELSE KeptLines(file.lines, targets) \o appended
NewFile(file, targets, optimized) ==
    [exists |-> TRUE,
     lines |-> WriteLines(file, targets,
                          <<OptimizedMarker>>
                            \o [k \in DOMAIN optimized |-> optimized[k].original_line]),
     eof_newline |-> TRUE]

OptimizeParsed(file, part_type, axis, target_part, parsed, targets) ==
    IF \E i \in DOMAIN parsed : parsed[i].status = "IndexError"
    THEN [status |-> "IndexError", file |-> file]
    ELSE IF targets = <<>> THEN [status |-> "returned", file |-> file]
    ELSE LET components == ComponentsOf(parsed, targets)
             optimized == OptimizedOf(components, LayerHeights(components), axis, part_type)
         IN IF ~made_changes(optimized, target_part)
            THEN [status |-> "returned", file |-> file]
            ELSE [status |-> "written", file |-> NewFile(file, targets, optimized)]
OptimizeLines(file, part_type, axis, target_part, parsed) ==
    OptimizeParsed(file, part_type, axis, target_part, parsed,
                   TargetIndexes(parsed, target_part))
optimize_mpd_file(file, part_type, axis) ==
    IF ~file.exists THEN [status |-> "FileNotFoundError", file |-> file]
    ELSE IF part_to_ldraw(part_type) = <<>> THEN [status |-> "ValueError", file |-> file]
    ELSE OptimizeLines(file, part_type, axis, part_to_ldraw(part_type)[1],
                       [i \in DOMAIN file.lines |-> parse_mpd_line(file.lines[i])])

(***************************************************************************)
(* mpd_optimizer.py (RunOptimizer).  Lines and files as above; a candidate *)
(* is [color, x, y, z], its orientation being IDENTITY_ORIENTATION.        *)
(***************************************************************************)
STUD_SPACING_LDU == 20 * Scale
TOLERANCE == Scale \div 1000

Plate1x1 == <<"p","l","a","t","e","_","1","x","1">>
Brick1x1 == <<"b","r","i","c","k","_","1","x","1">>
PART_VARIANTS ==
    [b \in {Plate1x1, Brick1x1} |->
        IF b = Plate1x1 THEN <<S3024, S3023, S3623, S3710>>
        ELSE <<S3005, S3004, S3622, S3010>>]
IDENTITY_ORIENTATION == << <<"1">>, <<"0">>, <<"0">>, <<"0">>, <<"1">>, <<"0">>, <<"0">>, <<"0">>, <<"1">> >>

_make_line(color, position, orientation, part_id) ==
    <<One, color, Format3f(position[1]), Format3f(position[2]), Format3f(position[3])>>
      \o orientation \o <<part_id \o DotDat>>

\* the order of str on the characters of the model's tokens (code point order)
CodePoints ==
    <<"#", "+", "-", ".", "/">> \o Digits \o UpperAlpha \o <<"\\", "_">> \o LowerAlpha
CodePoint == Stored([c \in Range(CodePoints) |-> CHOOSE i \in DOMAIN CodePoints : CodePoints[i] = c])
StrLess(a, b) ==
    \E i \in 1..(Len(b)) :
        /\ \A j \in 1..(i - 1) : j <= Len(a) /\ a[j] = b[j]
        /\ (i > Len(a) \/ CodePoint[a[i]] < CodePoint[b[i]])

\* the keys (color, y, z) of the buckets of _group_candidates (the fourth
\* component, the orientation, is the same in all)
BucketKey(entry) == <<entry.color, entry.y, entry.z>>
\* sorted(groups.keys(), key=lambda k: (k[1], k[2], k[0]))
KeyBefore(a, b) ==
    \/ a[2] < b[2]
    \/ a[2] = b[2] /\ a[3] < b[3]
    \/ a[2] = b[2] /\ a[3] = b[3] /\ StrLess(a[1], b[1])
RECURSIVE OrderedKeys(_)
OrderedKeys(K) ==
    IF K = {} THEN <<>>
    ELSE <<CHOOSE a \in K : \A b \in K : a = b \/ KeyBefore(a, b)>>
         \o OrderedKeys(K \ {CHOOSE a \in K : \A b \in K : a = b \/ KeyBefore(a, b)})

\* entries.sort(key=lambda item: item["x"])
RECURSIVE SortByX(_, _)
SortByX(entries, xs) ==
    IF xs = <<>> THEN <<>>
    ELSE SelectSeq(entries, LAMBDA e : e.x = Head(xs)) \o SortByX(entries, Tail(xs))

RECURSIVE SplitRunsFrom(_, _, _)
SplitRunsFrom(entries, i, runs) ==
    IF i > Len(entries) THEN runs
    ELSE IF Abs((entries[i].x - entries[i - 1].x) - STUD_SPACING_LDU) <= TOLERANCE
    THEN SplitRunsFrom(entries, i + 1, [runs EXCEPT ![Len(runs)] = Append(@, entries[i])])
    ELSE SplitRunsFrom(entries, i + 1, Append(runs, <<entries[i]>>))
_split_runs(entries) ==
    IF entries = <<>> THEN <<>> ELSE SplitRunsFrom(entries, 2, << <<entries[1]>> >>)

\* order of _segment_run: the lengths above 1 descending, then 1
SegmentOrder(variants) ==
    Reverse(SortedInts({n \in DOMAIN variants : n > 1})) \o <<1>>
\* a segmentation that never takes more than one entry
SelectedUnit(order, remaining) == 1
Selected(order, remaining) ==
    IF SelectSeq(order, LAMBDA n : n <= remaining) = <<>> THEN 1
    ELSE SelectSeq(order, LAMBDA n : n <= remaining)[1]
RECURSIVE SegmentFrom(_, _, _)
SegmentFrom(run, idx, order) ==
    IF idx > Len(run) THEN <<>>
    ELSE <<SubSeq(run, idx, idx + Selected(order, Len(run) - idx + 1) - 1)>>
         \o SegmentFrom(run, idx + Selected(order, Len(run) - idx + 1), order)
_segment_run(run, variants) == SegmentFrom(run, 1, SegmentOrder(variants))

ReplacementOf(segment, variants) ==
    _make_line(segment[1].color,
               <<segment[1].x + (STUD_SPACING_LDU * (Len(segment) - 1)) \div 2,
                 segment[1].y, segment[1].z>>,
               IDENTITY_ORIENTATION,
               IF Len(segment) \in DOMAIN variants THEN variants[Len(segment)] ELSE variants[1])
ReplacementsOfRun(run, variants) ==
    [k \in DOMAIN _segment_run(run, variants) |->
        ReplacementOf(_segment_run(run, variants)[k], variants)]
ReplacementsOfRuns(runs, variants) ==
    Flatten([k \in DOMAIN runs |-> ReplacementsOfRun(runs[k], variants)])
ReplacementsOfKey(entries, variants) ==
    ReplacementsOfRuns(_split_runs(SortByX(entries, SortedInts({entries[i].x : i \in DOMAIN entries}))),
                       variants)
ReplacementsOfKeys(candidates, keys, variants) ==
    Flatten([k \in DOMAIN keys |->
                ReplacementsOfKey(SelectSeq(candidates, LAMBDA e : BucketKey(e) = keys[k]),
                                  variants)])
\* _build_replacements(_group_candidates(candidates), variants)
_build_replacements(candidates, variants) ==
    ReplacementsOfKeys(candidates,
                       OrderedKeys({BucketKey(candidates[i]) : i \in DOMAIN candidates}),
                       variants)

\* the variant that takes a unit part in any orientation
IsCandidateAnyOrientation(line, base_filename) ==
    /\ Len(line) >= 2 /\ line[1] = One
    /\ StrLower(line[Len(line)]) = StrLower(base_filename)
    /\ Len(line) >= 14
    /\ float(line[3]).ok /\ float(line[4]).ok /\ float(line[5]).ok

\* the scan of the lines (lines 135-157)
IsCandidate(line, base_filename) ==
    /\ Len(line) >= 2 /\ line[1] = One
    /\ StrLower(line[Len(line)]) = StrLower(base_filename)
    /\ Len(line) >= 14 /\ SubSeq(line, 6, 14) = IDENTITY_ORIENTATION
    /\ float(line[3]).ok /\ float(line[4]).ok /\ float(line[5]).ok
CandidateOf(line) ==
    [color |-> line[2], x |-> float(line[3]).v, y |-> float(line[4]).v, z |-> float(line[5]).v]
NoFileTokens == << <<"0">>, <<"N","O","F","I","L","E">> >>
IsNoFile(line) == [i \in DOMAIN line |-> StrUpper(line[i])] = NoFileTokens
\* the replacements put before the lines that were kept
WithTailFirst(kept_lines, replacements) == replacements \o kept_lines
WithTail(kept_lines, replacements) ==
    IF kept_lines # <<>> /\ IsNoFile(kept_lines[Len(kept_lines)])
    THEN SubSeq(kept_lines, 1, Len(kept_lines) - 1) \o replacements
         \o <<kept_lines[Len(kept_lines)]>>
    ELSE kept_lines \o replacements
RunRewrite(file, kept_lines, replacements) ==
    IF replacements = <<>> THEN [status |-> "returned", file |-> file]
    ELSE [status |-> "written",
          file |-> [exists |-> TRUE, lines |-> WithTail(kept_lines, replacements),
                    eof_newline |-> FALSE]]
RunScan(file, variants, base_filename) ==
    IF SelectSeq(file.lines, LAMBDA l : IsCandidate(l, base_filename)) = <<>>
    THEN [status |-> "returned", file |-> file]
    ELSE RunRewrite(file,
                    SelectSeq(file.lines, LAMBDA l : ~IsCandidate(l, base_filename)),
                    _build_replacements(
                        [k \in DOMAIN SelectSeq(file.lines, LAMBDA l : IsCandidate(l, base_filename)) |->
                            CandidateOf(SelectSeq(file.lines,
                                                  LAMBDA l : IsCandidate(l, base_filename))[k])],
                        variants))
\* optimize_mpd_file of mpd_optimizer.py
run_optimize_mpd_file(file, base_part) ==
    IF base_part \notin DOMAIN PART_VARIANTS \/ 1 \notin DOMAIN PART_VARIANTS[base_part]
    THEN [status |-> "returned", file |-> file]
    ELSE IF ~file.exists THEN [status |-> "returned", file |-> file]
    ELSE IF file.lines = <<>> THEN [status |-> "returned", file |-> file]
    ELSE RunScan(file, PART_VARIANTS[base_part], PART_VARIANTS[base_part][1] \o DotDat)

(***************************************************************************)
(* LayerMerger: merge_1x1_to_larger as a state machine.                    *)
(***************************************************************************)
Cells == (0..(GridW - 1)) \X (0..(GridH - 1))

\* the coloured layers of at most MaxCells cells
LayerInputs ==
    UNION {[S -> LayerColors] : S \in {T \in SUBSET Cells : Cardinality(T) <= MaxCells}}

\* the sub-model of a layer: its unit parts in ascending (x, y) order, then 0 NOFILE
DocOf(z, f) ==
    LET cs == CellsInOrder(DOMAIN f)
    IN [i \in DOMAIN cs |-> UnitLine(f[cs[i]], cs[i][1], cs[i][2], z)] \o <<NoFileLine>>

EmptyDict == [k \in {} |-> 0]
DictPut(d, k, v) == [j \in DOMAIN d \cup {k} |-> IF j = k THEN v ELSE d[j]]

NoCall == [called |-> FALSE, z |-> 0, color |-> 0, kept |-> {}, new_bricks |-> <<>>]

LayerInit ==
    /\ \E z \in Layers, f \in LayerInputs : lm_lines = DocOf(z, f)
    /\ grid_by_z = EmptyDict
    /\ lm_pc = "parse"
    /\ lm_todo = {}
    /\ lm_last = NoCall
    /\ kept_by_layer = EmptyDict
    /\ bricks_by_layer = EmptyDict
    /\ lm_out = <<>>

LayerIdle ==
    /\ lm_lines = <<>>
    /\ grid_by_z = EmptyDict
    /\ lm_pc = "idle"
    /\ lm_todo = {}
    /\ lm_last = NoCall
    /\ kept_by_layer = EmptyDict
    /\ bricks_by_layer = EmptyDict
    /\ lm_out = <<>>

\* steps 1-3: parse, extract_bricks_from_mpd, build_voxel_grid
ExtractGrid ==
    /\ lm_pc = "parse"
    /\ grid_by_z' = build_voxel_grid(extract_bricks_from_mpd(lm_lines))
    /\ lm_todo' = UNION {{<<z, grid_by_z'[z][c]>> : c \in DOMAIN grid_by_z'[z]} :
                            z \in DOMAIN grid_by_z'}
    /\ lm_pc' = "loop"
    /\ UNCHANGED <<lm_lines, lm_last, kept_by_layer, bricks_by_layer, lm_out>>
    /\ UNCHANGED <<lineVars, axialVars, runVars, libVars, colourVars, mcVars>>

\* step 4: one pass of the loop body, layers ascending, the colours of a layer
\* in the iteration order of a set
MergeColor(z, color) ==
    /\ lm_pc = "loop"
    /\ <<z, color>> \in lm_todo
    /\ \A p \in lm_todo : z <= p[1]
    /\ \E r \in {merge_components_for_layer(grid_by_z, z, color, Candidates, FALSE)} :
       LET k0 == IF z \in DOMAIN kept_by_layer THEN kept_by_layer[z] ELSE {}
           b0 == IF z \in DOMAIN bricks_by_layer THEN bricks_by_layer[z] ELSE <<>>
       IN /\ lm_last' = [called |-> TRUE, z |-> z, color |-> color,
                         kept |-> r.kept, new_bricks |-> r.new_bricks]
          /\ kept_by_layer' = DictPut(kept_by_layer, z, k0 \cup r.kept)
          /\ bricks_by_layer' = DictPut(bricks_by_layer, z, b0 \o r.new_bricks)
    /\ lm_todo' = lm_todo \ {<<z, color>>}
    /\ UNCHANGED <<lm_lines, grid_by_z, lm_pc, lm_out>>
    /\ UNCHANGED <<lineVars, axialVars, runVars, libVars, colourVars, mcVars>>

\* layer_results of merge_1x1_to_larger
LayerResults ==
    [z \in DOMAIN kept_by_layer \cup DOMAIN bricks_by_layer |->
        [kept |-> IF z \in DOMAIN kept_by_layer THEN kept_by_layer[z] ELSE {},
         bricks |-> IF z \in DOMAIN bricks_by_layer THEN bricks_by_layer[z] ELSE <<>>]]

\* steps 5-6: build_merged_mpd and save
BuildMerged ==
    /\ lm_pc = "loop"
    /\ lm_todo = {}
    /\ lm_out' = build_merged_mpd(lm_lines, LayerResults)
    /\ lm_pc' = "built"
    /\ UNCHANGED <<lm_lines, grid_by_z, lm_todo, lm_last, kept_by_layer, bricks_by_layer>>
    /\ UNCHANGED <<lineVars, axialVars, runVars, libVars, colourVars, mcVars>>

(***************************************************************************)
(* merge_components_for_layer called on a grid of its own, as the tests of *)
(* TestMergeHelpers and TestMergeEndToEnd call it, and once more on the    *)
(* same grid moved by an offset.                                           *)
(***************************************************************************)
\* the layer the calls work on; the layer below it carries the support
CallLayer == 0
ShapeRows == {0, 1}
ShapeBox == (0..(ShapeW - 1)) \X ShapeRows
\* one colour everywhere, or one cell of the other colour
OneColour(cells) == [c \in cells |-> 21]
Recoloured(cells, d) == [c \in cells |-> IF c = d THEN 5 ELSE 21]
ShapeLayers ==
    UNION {{OneColour(cells)} \cup {Recoloured(cells, d) : d \in cells} :
              cells \in SUBSET ShapeBox \ {{}}}
\* a straight run of n cells along x or along y
RunAlongX(n) == OneColour((0..(n - 1)) \X {0})
RunAlongY(n) == OneColour({0} \X (0..(n - 1)))
StraightRuns == UNION {{RunAlongX(n), RunAlongY(n)} : n \in 1..LongRun}
\* grid_by_z with the layer at CallLayer and, below it, the cells of support
GridOf(layer, support) ==
    [z \in {CallLayer} \cup (IF support = {} THEN {} ELSE {CallLayer - 1}) |->
        IF z = CallLayer THEN layer ELSE OneColour(support)]
\* the support under a shape: none, all of it, or all but one cell
SupportsOf(cells) == {{}, cells} \cup {cells \ {d} : d \in cells}
MovedLayer(layer, d) ==
    [c \in {<<k[1] + d[1], k[2] + d[2]>> : k \in DOMAIN layer} |->
        layer[<<c[1] - d[1], c[2] - d[2]>>]]
MovedGrid(grid, d) == [z \in DOMAIN grid |-> MovedLayer(grid[z], d)]
\* offsets into negative coordinates, inside the marker array and past its side
Offsets ==
    {<<0, 0>>, <<3, 2>>, <<-1, 0>>, <<0, -2>>, <<-ShapeW, -2>>,
     <<UsedSide - 1, 0>>, <<UsedSide, UsedSide>>, <<0, UsedSide - 1>>}

NoMerge == [kept |-> {}, new_bricks |-> <<>>]
McIdle ==
    /\ mc_grid = EmptyDict
    /\ mc_color = 0
    /\ mc_candidates = <<>>
    /\ mc_stability = FALSE
    /\ mc_offset = <<0, 0>>
    /\ mc_pc = "idle"
    /\ mc_comps = <<>>
    /\ mc_result = NoMerge
    /\ mc_moved = NoMerge

McCall(grid, color, candidates, stability, offset) ==
    /\ mc_grid = grid
    /\ mc_color = color
    /\ mc_candidates = candidates
    /\ mc_stability = stability
    /\ mc_offset = offset
    /\ mc_pc = "call"
    /\ mc_comps = <<>>
    /\ mc_result = NoMerge
    /\ mc_moved = NoMerge

\* max_wh of the tests, one whose sizes the library lacks in part, and the default
MaxWHs == {2, 3, DefaultMaxWH}
\* any shape or straight run, either colour, no support check
ShapesInit ==
    \E layer \in ShapeLayers \cup StraightRuns, color \in LayerColors, max_wh \in MaxWHs :
        McCall(GridOf(layer, {}), color, candidate_sizes(max_wh), FALSE, <<0, 0>>)

\* shapes of one colour over a layer of support, with and without the check
SupportInit ==
    \E cells \in SUBSET ShapeBox \ {{}}, stability \in BOOLEAN :
        \E support \in SupportsOf(cells) :
            McCall(GridOf(OneColour(cells), support), 21, Candidates, stability, <<0, 0>>)

\* shapes of one colour, moved
MovedInit ==
    \E cells \in SUBSET ShapeBox \ {{}}, offset \in Offsets :
        McCall(GridOf(OneColour(cells), {}), 21, Candidates, FALSE, offset)

MergeCall ==
    /\ mc_pc = "call"
    /\ mc_comps' = bfs_connected_components(LayerOf(mc_grid, CallLayer))
    /\ mc_result' = merge_components_for_layer(mc_grid, CallLayer, mc_color, mc_candidates,
                                               mc_stability)
    /\ mc_pc' = "moved"
    /\ UNCHANGED <<mc_grid, mc_color, mc_candidates, mc_stability, mc_offset, mc_moved>>
    /\ UNCHANGED <<layerVars, lineVars, axialVars, runVars, libVars, colourVars>>

MergeMoved ==
    /\ mc_pc = "moved"
    /\ mc_moved' = merge_components_for_layer(MovedGrid(mc_grid, mc_offset), CallLayer,
                                              mc_color, mc_candidates, mc_stability)
    /\ mc_pc' = "done"
    /\ UNCHANGED <<mc_grid, mc_color, mc_candidates, mc_stability, mc_offset, mc_comps,
                   mc_result>>
    /\ UNCHANGED <<layerVars, lineVars, axialVars, runVars, libVars, colourVars>>

(***************************************************************************)
(* AxialMerger: a call of merge_in_line, as the tests and optimize_mpd_file *)
(* make it: components parsed from unit-part lines, in ascending order      *)
(* along the axis.                                                          *)
(***************************************************************************)
IdentityRotation == <<Scale, 0, 0, 0, Scale, 0, 0, 0, Scale>>
ColourTokens == << <<"2","1">>, <<"4">> >>
UnitPartOf == [f \in {"plate", "brick"} |-> IF f = "plate" THEN S3024 \o DotDat ELSE S3005 \o DotDat]
UnitAliasOf == [f \in {"plate", "brick"} |-> IF f = "plate" THEN Plate1x1 ELSE Brick1x1]
UnknownPart == <<"u","n","k","n","o","w","n">>

PositionOn(axis, p) == IF axis = 0 THEN <<p * STUD_PITCH_LDU, 0, 0>> ELSE <<0, 0, p * STUD_PITCH_LDU>>
UnitComponent(color, position, part) ==
    parse_mpd_line(format_type1_line(color, position, IdentityRotation, part)).comp
\* the components the calls are made of, parsed once
UnitComponents ==
    Stored([t \in (DOMAIN ColourTokens) \X (0..(RunMax - 1)) \X {0, 2} \X DOMAIN UnitPartOf |->
               UnitComponent(ColourTokens[t[1]], PositionOn(t[3], t[2]), UnitPartOf[t[4]])])
\* f[p] = 0: no part at stud position p; f[p] = c: a part of colour ColourTokens[c]
ComponentsAt(f, axis, family, ps) ==
    [k \in DOMAIN ps |-> UnitComponents[<<f[ps[k]], ps[k], axis, family>>]]
LineComponents(f, axis, family) ==
    ComponentsAt(f, axis, family, SortedInts({p \in DOMAIN f : f[p] # 0}))
NoResult == [status |-> "none", merged |-> <<>>]

LineInit ==
    /\ \E f \in [0..(RunMax - 1) -> 0..Len(ColourTokens)], axis \in {0, 2},
          family \in DOMAIN UnitPartOf :
          /\ ml_components = LineComponents(f, axis, family)
          /\ ml_axis = axis
          /\ ml_part_type = UnitAliasOf[family]
    /\ ml_pc = "call"
    /\ ml_result = NoResult

LineIdle ==
    /\ ml_components = <<>>
    /\ ml_axis = 0
    /\ ml_part_type = <<>>
    /\ ml_pc = "idle"
    /\ ml_result = NoResult

MergeInLine ==
    /\ ml_pc = "call"
    /\ ml_result' = merge_in_line(ml_components, ml_axis, ml_part_type)
    /\ ml_pc' = "done"
    /\ UNCHANGED <<ml_components, ml_axis, ml_part_type>>
    /\ UNCHANGED <<layerVars, axialVars, runVars, libVars, colourVars, mcVars>>

(***************************************************************************)
(* The documents: a header, unit parts, the closing 0 NOFILE.              *)
(***************************************************************************)
HeaderLine == << <<"0">>, <<"F","I","L","E">>, <<"m","o","d","e","l",".","l","d","r">> >>
LayerHeightsLDU == {0, 8}
DepthsLDU == {0, 20}

\* lexicographic order on integer tuples of one length
TupleLess(a, b) ==
    \E i \in DOMAIN a : a[i] < b[i] /\ \A j \in 1..(i - 1) : a[j] = b[j]
\* the ascending sequences of at most n tuples of a pool
AscendingSeqs(pool, n) ==
    UNION {{s \in [1..k -> pool] : \A i \in 1..(k - 1) : TupleLess(s[i], s[i + 1])} : k \in 0..n}

\* a unit plate of the document: <<y, z, x, c>> in LDU, colour ColourTokens[c]
PlateLine(t) ==
    format_type1_line(ColourTokens[t[4]], <<t[3] * Scale, t[1] * Scale, t[2] * Scale>>,
                      IdentityRotation, S3024 \o DotDat)
PlateLines ==
    Stored([t \in LayerHeightsLDU \X DepthsLDU \X {20 * i : i \in 0..(XSteps - 1)}
                     \X DOMAIN ColourTokens |-> PlateLine(t)])
DocumentOf(s) == <<HeaderLine>> \o [i \in DOMAIN s |-> PlateLines[s[i]]] \o <<NoFileTokens>>
MissingFile == [exists |-> FALSE, lines |-> <<>>, eof_newline |-> FALSE]

\* the unit plates of a document for the AxialMerger: <<y, z, x>>, all of the
\* first colour (pattern 0) or of the two colours in turn (pattern 1)
AxialPool == LayerHeightsLDU \X DepthsLDU \X {20 * i : i \in 0..(XSteps - 1)}
Coloured(s, pattern) ==
    [i \in DOMAIN s |-> <<s[i][1], s[i][2], s[i][3], 1 + ((pattern * (i - 1)) % Len(ColourTokens))>>]
AxialFiles ==
    {[exists |-> TRUE, lines |-> DocumentOf(Coloured(s, pattern)), eof_newline |-> n] :
        s \in AscendingSeqs(AxialPool, AxialParts), pattern \in {0, 1}, n \in BOOLEAN}
      \cup {MissingFile}

AxialInit ==
    /\ ax_file \in AxialFiles
    /\ \/ ax_part_type = Plate1x1 /\ ax_axis \in {<<>>, <<0>>, <<2>>}
       \/ ax_part_type = UnknownPart /\ ax_axis = <<>>
    /\ ax_pc = "call"
    /\ ax_status = "none"

AxialIdle ==
    /\ ax_file = MissingFile
    /\ ax_part_type = <<>>
    /\ ax_axis = <<>>
    /\ ax_pc = "idle"
    /\ ax_status = "none"

OptimizeFile ==
    /\ ax_pc = "call"
    /\ \E r \in {optimize_mpd_file(ax_file, ax_part_type, ax_axis)} :
          /\ ax_file' = r.file
          /\ ax_status' = r.status
    /\ ax_pc' = "done"
    /\ UNCHANGED <<ax_part_type, ax_axis>>
    /\ UNCHANGED <<layerVars, lineVars, runVars, libVars, colourVars, mcVars>>

(***************************************************************************)
(* RunOptimizer: mpd_optimizer.optimize_mpd_file called on a file and then *)
(* again on what it wrote.                                                 *)
(***************************************************************************)
RunPool == LayerHeightsLDU \X {0} \X {20 * i : i \in 0..(XSteps - 1)} \X DOMAIN ColourTokens
RunFiles ==
    {[exists |-> TRUE, lines |-> DocumentOf(s), eof_newline |-> FALSE] :
        s \in AscendingSeqs(RunPool, MaxParts)}
      \cup {MissingFile}

RunInit ==
    /\ run_file \in RunFiles
    /\ run_base_part \in {Plate1x1, Brick1x1, UnknownPart}
    /\ run_passes = 0
    /\ run_status = "none"

RunIdle ==
    /\ run_file = MissingFile
    /\ run_base_part = <<>>
    /\ run_passes = MaxPasses
    /\ run_status = "none"

RunOptimize ==
    /\ run_passes < MaxPasses
    /\ \E r \in {run_optimize_mpd_file(run_file, run_base_part)} :
          /\ run_file' = r.file
          /\ run_status' = r.status
    /\ run_passes' = run_passes + 1
    /\ UNCHANGED run_base_part
    /\ UNCHANGED <<layerVars, lineVars, axialVars, libVars, colourVars, mcVars>>

(***************************************************************************)
(* PartLibrary: part_to_ldraw on the tokens a caller may pass.             *)
(***************************************************************************)
FamilyPrefix == [f \in {"plate", "brick"} |-> IF f = "plate" THEN PlatePrefix ELSE BrickPrefix]
Aliases ==
    {FamilyPrefix[f] \o NatToDigits(w) \o <<"x">> \o NatToDigits(h) :
        f \in DOMAIN FamilyPrefix, w \in 1..4, h \in 1..4}
LibraryParts == {PART_LIBRARY[i].part : i \in DOMAIN PART_LIBRARY}
PartTokens ==
    LibraryParts
      \cup {SubSeq(p, 1, Len(p) - 4) : p \in LibraryParts}
      \cup {StrUpper(p) : p \in LibraryParts}
      \cup {<<" ","p","a","r","t","s","\\">> \o p : p \in LibraryParts}
      \cup Aliases
      \cup {UnknownPart, <<>>}

LibInit ==
    /\ lib_token \in PartTokens
    /\ lib_pc = "call"
    /\ lib_descriptor = <<>>
    /\ lib_part = <<>>

LibIdle ==
    /\ lib_token = <<>>
    /\ lib_pc = "idle"
    /\ lib_descriptor = <<>>
    /\ lib_part = <<>>

ResolvePart ==
    /\ lib_pc = "call"
    /\ lib_descriptor' = _resolve_descriptor(lib_token)
    /\ lib_part' = part_to_ldraw(lib_token)
    /\ lib_pc' = "done"
    /\ UNCHANGED lib_token
    /\ UNCHANGED <<layerVars, lineVars, axialVars, runVars, colourVars, mcVars>>

(***************************************************************************)
(* ldraw_writer.py : the colour code of a type-1 line, and its way back    *)
(* through hex_to_rgb and match_lego_color.  A colour code is None, a      *)
(* string, an integer, or an object int() rejects.                         *)
(***************************************************************************)
DEFAULT_COLOR == 71
DirectLow == 33554432       \* 0x02000000
DirectHigh == 50331647      \* 0x02FFFFFF
DirectMask == 16777216      \* ival & 0x00FFFFFF is ival % 2^24 on the naturals

\* str(ival)
IntToStr(n) == (IF n < 0 THEN <<"-">> ELSE <<>>) \o NatToDigits(Abs(n))

\* f"{n:06X}"
RECURSIVE HexUpper(_)
HexUpper(n) ==
    IF n < 16 THEN <<UpperChar(HexDigits[n + 1])>>
    ELSE HexUpper(n \div 16) \o <<UpperChar(HexDigits[(n % 16) + 1])>>
Format06X(n) == Zeros(6 - Len(HexUpper(n))) \o HexUpper(n)

NoneValue == [kind |-> "none", v |-> 0]
OtherValue == [kind |-> "other", v |-> 0]
IntValue(n) == [kind |-> "int", v |-> n]
StrValue(s) == [kind |-> "str", v |-> s]

\* the variant that knows no true-colour encoding
format_ldraw_color_decimal(value, fallback) ==
    IF value.kind \in {"none", "other"} THEN IntToStr(fallback)
    ELSE IF value.kind = "str" THEN value.v
    ELSE IntToStr(value.v)

_format_ldraw_color(value, fallback) ==
    IF value.kind = "none" THEN IntToStr(fallback)
    ELSE IF value.kind = "str" THEN value.v
    ELSE IF value.kind = "other" THEN IntToStr(fallback)
    ELSE IF DirectLow <= value.v /\ value.v <= DirectHigh
    THEN <<"0", "x", "2">> \o Format06X(value.v % DirectMask)
    ELSE IntToStr(value.v)

\* the channel values of the model: an even division of 0..255 and the
\* values around a change of hexadecimal digit
Channels == {(255 * k) \div ChannelSteps : k \in 0..ChannelSteps} \cup {1, 15, 16}
ModelRgb == Channels \X Channels \X Channels
DirectCode(rgb) == DirectLow + 65536 * rgb[1] + 256 * rgb[2] + rgb[3]
\* palette ids, and the integers next to the true-colour interval
PlainCodes == {-1, 0, 4, 21, 71, DirectLow - 1, DirectHigh + 1}
ColourValues ==
    {IntValue(DirectCode(rgb)) : rgb \in ModelRgb}
      \cup {IntValue(n) : n \in PlainCodes}
      \cup {NoneValue, OtherValue, StrValue(<<"4">>), StrValue(<<"0","x","2","F","F","0","0","A","A">>)}

\* colour tokens of a line: a prefix and at most MaxTokenLen characters
TokenChars == {"F", "g", "-"}
TokenPrefixes == {<<>>, <<"#">>, <<"0", "x">>, <<"#", "0", "x">>, <<"1">>, <<"a">>}
SampleTokens ==
    {p \o b : p \in TokenPrefixes,
              b \in UNION {[1..n -> TokenChars] : n \in 0..MaxTokenLen}}

\* inputs at the same distance from two palette entries
TieInputs == {<<0, 155, 180>>, <<1, 125, 220>>, <<16, 125, 180>>, <<50, 50, 120>>}
MatchInputs == ModelRgb \cup TieInputs

ColourIdle ==
    /\ col_value = NoneValue
    /\ col_token = <<>>
    /\ col_rgb = <<0, 0, 0>>
    /\ col_id = <<>>
    /\ col_pc = "idle"

\* write_mpd is about to render a colour code
FormatInit ==
    /\ col_value \in ColourValues
    /\ col_token = <<>>
    /\ col_rgb = <<0, 0, 0>>
    /\ col_id = <<>>
    /\ col_pc = "format"

\* parse_mpd_line is about to decode a colour token
DecodeInit ==
    /\ col_value = NoneValue
    /\ col_token \in SampleTokens
    /\ col_rgb = <<0, 0, 0>>
    /\ col_id = <<>>
    /\ col_pc = "decode"

\* parse_mpd_line is about to quantise a colour
MatchInit ==
    /\ col_value = NoneValue
    /\ col_token = <<>>
    /\ col_rgb \in MatchInputs
    /\ col_id = <<>>
    /\ col_pc = "match"

\* parse_mpd_line is about to decode a colour token that is a palette id
PaletteIds == {LEGO_COLORS[i].id : i \in DOMAIN LEGO_COLORS}
PaletteInit ==
    /\ col_value = NoneValue
    /\ col_token \in PaletteIds
    /\ col_rgb = <<0, 0, 0>>
    /\ col_id = <<>>
    /\ col_pc = "decode"

FormatColour ==
    /\ col_pc = "format"
    /\ col_token' = _format_ldraw_color(col_value, DEFAULT_COLOR)
    /\ col_pc' = "decode"
    /\ UNCHANGED <<col_value, col_rgb, col_id>>
    /\ UNCHANGED <<layerVars, lineVars, axialVars, runVars, libVars, mcVars>>

DecodeColour ==
    /\ col_pc = "decode"
    /\ col_rgb' = hex_to_rgb(col_token)
    /\ col_pc' = "match"
    /\ UNCHANGED <<col_value, col_token, col_id>>
    /\ UNCHANGED <<layerVars, lineVars, axialVars, runVars, libVars, mcVars>>

MatchColour ==
    /\ col_pc = "match"
    /\ col_id' = match_lego_color(col_rgb)
    /\ col_pc' = "done"
    /\ UNCHANGED <<col_value, col_token, col_rgb>>
    /\ UNCHANGED <<layerVars, lineVars, axialVars, runVars, libVars, mcVars>>

RestIdle == LayerIdle /\ LineIdle /\ AxialIdle /\ RunIdle /\ LibIdle /\ McIdle
InitDirect == RestIdle /\ FormatInit
DirectNext == FormatColour \/ DecodeColour \/ MatchColour
SpecDirect == InitDirect /\ [][DirectNext]_vars

InitDecode == RestIdle /\ DecodeInit
SpecDecode == InitDecode /\ [][DecodeColour]_vars

InitMatch == RestIdle /\ MatchInit
SpecMatch == InitMatch /\ [][MatchColour]_vars

InitPalette == RestIdle /\ PaletteInit
PaletteNext == DecodeColour \/ MatchColour
SpecPalette == InitPalette /\ [][PaletteNext]_vars

(***************************************************************************)
(* RunOptimizer on one row of unit parts of the base part, longer than the *)
(* longest variant.                                                        *)
(***************************************************************************)
\* the unit part of colour ColourTokens[c] at stud position p of the row
RowLine(c, p, family) ==
    format_type1_line(ColourTokens[c], PositionOn(0, p), IdentityRotation, UnitPartOf[family])
RowLines ==
    Stored([t \in (DOMAIN ColourTokens) \X (0..(RunMax - 1)) \X DOMAIN UnitPartOf |->
               RowLine(t[1], t[2], t[3])])
\* f[p] = 0: no part at stud position p; f[p] = c: a part of colour ColourTokens[c]
RowOf(f, family, ps) == [k \in DOMAIN ps |-> RowLines[<<f[ps[k]], ps[k], family>>]]
RowDocument(f, family) ==
    <<HeaderLine>> \o RowOf(f, family, SortedInts({p \in DOMAIN f : f[p] # 0})) \o <<NoFileTokens>>

SegmentInit ==
    /\ \E f \in [0..(RunMax - 1) -> 0..Len(ColourTokens)], family \in DOMAIN UnitPartOf :
          /\ run_file = [exists |-> TRUE, lines |-> RowDocument(f, family), eof_newline |-> FALSE]
          /\ run_base_part = UnitAliasOf[family]
    /\ run_passes = 0
    /\ run_status = "none"

InitSegment == LayerIdle /\ LineIdle /\ AxialIdle /\ SegmentInit /\ LibIdle /\ ColourIdle /\ McIdle
SpecSegment == InitSegment /\ [][RunOptimize]_vars

(***************************************************************************)
(* RunOptimizer on documents that mix unit plates with lines it must leave *)
(* alone: a longer plate, a turned unit plate, 0 NOFILE at any place.      *)
(***************************************************************************)
\* a 1x2 plate that is already there, and a unit plate turned by a quarter
ForeignLine ==
    format_type1_line(ColourTokens[1], <<10 * Scale, 8 * Scale, 0>>, IdentityRotation,
                      S3023 \o DotDat)
TurnedLine ==
    format_type1_line(ColourTokens[1], <<40 * Scale, 0, 0>>, QuarterTurn, S3024 \o DotDat)
MixedPool ==
    {RowLines[<<1, 0, "plate">>], RowLines[<<1, 1, "plate">>], ForeignLine, TurnedLine,
     NoFileTokens}
MixedFiles ==
    {[exists |-> TRUE, lines |-> s, eof_newline |-> FALSE] :
        s \in UNION {[1..n -> MixedPool] : n \in 0..MaxLines}}

MixedInit ==
    /\ run_file \in MixedFiles
    /\ run_base_part = Plate1x1
    /\ run_passes = 0
    /\ run_status = "none"

InitMixed == LayerIdle /\ LineIdle /\ AxialIdle /\ MixedInit /\ LibIdle /\ ColourIdle /\ McIdle
SpecMixed == InitMixed /\ [][RunOptimize]_vars

(***************************************************************************)
(* AxialMerger on documents with malformed type-1 lines among the plates.  *)
(***************************************************************************)
\* a unit plate line cut after its colour, cut before its part name (14
\* tokens), and with a coordinate that is no number
ShortLine == SubSeq(RowLines[<<1, 2, "plate">>], 1, 2)
NoPartLine == SubSeq(RowLines[<<1, 2, "plate">>], 1, 14)
BadNumberLine == [RowLines[<<1, 2, "plate">>] EXCEPT ![3] = <<"x">>]
MalformedLines == {ShortLine, NoPartLine, BadNumberLine}
MalformedPool == {RowLines[<<1, 0, "plate">>], RowLines[<<1, 1, "plate">>]} \cup MalformedLines
MalformedFiles ==
    {[exists |-> TRUE, lines |-> <<HeaderLine>> \o s \o <<NoFileTokens>>, eof_newline |-> n] :
        s \in UNION {[1..k -> MalformedPool] : k \in 0..MaxLines}, n \in BOOLEAN}

MalformedInit ==
    /\ ax_file \in MalformedFiles
    /\ ax_part_type = Plate1x1
    /\ ax_axis = <<>>
    /\ ax_pc = "call"
    /\ ax_status = "none"

InitMalformed == LayerIdle /\ LineIdle /\ MalformedInit /\ RunIdle /\ LibIdle /\ ColourIdle /\ McIdle
SpecMalformed == InitMalformed /\ [][OptimizeFile]_vars

(***************************************************************************)
(* AxialMerger called with a configuration that may be wrong: a part type  *)
(* the library lacks, an axis that is neither 0 nor 2.                     *)
(***************************************************************************)
\* an alias of the right form for a size the library lacks
Plate3x3 == PlatePrefix \o <<"3", "x", "3">>
ConfigPartTypes == {Plate1x1, Plate3x3, UnknownPart, <<>>}
ConfigRows == [0..(XSteps - 1) -> 0..Len(ColourTokens)]

LineConfigInit ==
    /\ \E f \in ConfigRows, axis \in {0, 1, 2} :
          /\ ml_components = LineComponents(f, IF axis = 2 THEN 2 ELSE 0, "plate")
          /\ ml_axis = axis
    /\ ml_part_type \in ConfigPartTypes
    /\ ml_pc = "call"
    /\ ml_result = NoResult

AxialConfigInit ==
    /\ \E f \in ConfigRows, n \in BOOLEAN :
          ax_file = [exists |-> TRUE, lines |-> RowDocument(f, "plate"), eof_newline |-> n]
    /\ ax_part_type \in ConfigPartTypes
    /\ ax_axis \in {<<>>, <<0>>, <<1>>, <<2>>}
    /\ ax_pc = "call"
    /\ ax_status = "none"

InitConfig ==
    \/ LayerIdle /\ LineConfigInit /\ AxialIdle /\ RunIdle /\ LibIdle /\ ColourIdle /\ McIdle
    \/ LayerIdle /\ LineIdle /\ AxialConfigInit /\ RunIdle /\ LibIdle /\ ColourIdle /\ McIdle
ConfigNext == MergeInLine \/ OptimizeFile
SpecConfig == InitConfig /\ [][ConfigNext]_vars

(***************************************************************************)
(* AxialMerger with no explicit axis on plates of several heights.         *)
(***************************************************************************)
\* second coordinates (the layer height of optimize_mpd_file): no multiple,
\* the even multiples 0 and 96 and the odd multiple 48 of AXIS_SWITCH_UNIT
HeuristicHeights == {0, 8, 20, 48, 96}
\* a unit plate at <<y, z, x>> in LDU
HeightPool == HeuristicHeights \X {0, 20, 40} \X {0, 20}
HeightLine(t) ==
    format_type1_line(ColourTokens[1], <<t[3] * Scale, t[1] * Scale, t[2] * Scale>>,
                      IdentityRotation, S3024 \o DotDat)
HeightLines == Stored([t \in HeightPool |-> HeightLine(t)])
HeightFiles ==
    {[exists |-> TRUE,
      lines |-> <<HeaderLine>> \o [i \in DOMAIN s |-> HeightLines[s[i]]] \o <<NoFileTokens>>,
      eof_newline |-> FALSE] : s \in AscendingSeqs(HeightPool, AxialParts)}

HeightInit ==
    /\ ax_file \in HeightFiles
    /\ ax_part_type = Plate1x1
    /\ ax_axis = <<>>
    /\ ax_pc = "call"
    /\ ax_status = "none"

InitHeights == LayerIdle /\ LineIdle /\ HeightInit /\ RunIdle /\ LibIdle /\ ColourIdle /\ McIdle
SpecHeights == InitHeights /\ [][OptimizeFile]_vars

(***************************************************************************)
(* RunOptimizer called with any base part on a missing, an empty or a      *)
(* mixed document.                                                         *)
(***************************************************************************)
NoopBaseParts == {Plate1x1, Brick1x1, UnknownPart, <<>>}
NoopInit ==
    /\ run_file \in MixedFiles \cup {MissingFile}
    /\ run_base_part \in NoopBaseParts
    /\ run_passes = 0
    /\ run_status = "none"

InitNoop == LayerIdle /\ LineIdle /\ AxialIdle /\ NoopInit /\ LibIdle /\ ColourIdle /\ McIdle
SpecNoop == InitNoop /\ [][RunOptimize]_vars

(***************************************************************************)
(* The specifications: one per program, the others at rest.                *)
(***************************************************************************)
LayerNext ==
    \/ ExtractGrid
    \/ \E z \in Layers, color \in LayerColors : MergeColor(z, color)
    \/ BuildMerged

InitLayer == LayerInit /\ LineIdle /\ AxialIdle /\ RunIdle /\ LibIdle /\ ColourIdle /\ McIdle
SpecLayer == InitLayer /\ [][LayerNext]_vars

InitLine == LayerIdle /\ LineInit /\ AxialIdle /\ RunIdle /\ LibIdle /\ ColourIdle /\ McIdle
SpecLine == InitLine /\ [][MergeInLine]_vars

InitAxial == LayerIdle /\ LineIdle /\ AxialInit /\ RunIdle /\ LibIdle /\ ColourIdle /\ McIdle
SpecAxial == InitAxial /\ [][OptimizeFile]_vars

InitRun == LayerIdle /\ LineIdle /\ AxialIdle /\ RunInit /\ LibIdle /\ ColourIdle /\ McIdle
SpecRun == InitRun /\ [][RunOptimize]_vars

InitLib == LayerIdle /\ LineIdle /\ AxialIdle /\ RunIdle /\ LibInit /\ ColourIdle /\ McIdle
SpecLib == InitLib /\ [][ResolvePart]_vars

\* merge_components_for_layer on its own
OthersIdle == LayerIdle /\ LineIdle /\ AxialIdle /\ RunIdle /\ LibIdle /\ ColourIdle
InitShapes == OthersIdle /\ ShapesInit
SpecShapes == InitShapes /\ [][MergeCall]_vars

InitSupport == OthersIdle /\ SupportInit
SpecSupport == InitSupport /\ [][MergeCall]_vars

InitMoved == OthersIdle /\ MovedInit
MovedNext == MergeCall \/ MergeMoved
SpecMoved == InitMoved /\ [][MovedNext]_vars

\* the two mergers that emit library parts
MergeNext == LayerNext \/ MergeInLine
SpecMerge == (InitLayer \/ InitLine) /\ [][MergeNext]_vars

Init == InitLayer \/ InitLine \/ InitAxial \/ InitRun \/ InitLib \/ InitDirect \/ InitMoved

Next ==
    \/ ExtractGrid
    \/ \E z \in Layers, color \in LayerColors : MergeColor(z, color)
    \/ BuildMerged
    \/ MergeInLine
    \/ OptimizeFile
    \/ RunOptimize
    \/ ResolvePart
    \/ FormatColour
    \/ DecodeColour
    \/ MatchColour
    \/ MergeCall
    \/ MergeMoved

Spec == Init /\ [][Next]_vars

(***************************************************************************)
(* Claims about the LayerMerger.                                           *)
(***************************************************************************)
\* the layer and the cells of the colour of the last merge_components_for_layer call
LastLayer == LayerOf(grid_by_z, lm_last.z)
LastColourCells == {c \in DOMAIN LastLayer : LastLayer[c] = lm_last.color}
LastCovered == UNION {cells_in_rect(lm_last.new_bricks[i][1]) : i \in DOMAIN lm_last.new_bricks}
LastAreas == [i \in DOMAIN lm_last.new_bricks |-> rect_area(lm_last.new_bricks[i][1])]

\* C1 (area conservation): after merge_components_for_layer(grid, z, c, candidates)
\* the areas of new_bricks plus the number of kept cells equal the number of cells
\* of colour c in layer z, and the kept cells and the covered cells are together
\* exactly the cells of colour c.
C1_AreaConservation ==
    lm_last.called =>
        /\ SumSeq(LastAreas) + Cardinality(lm_last.kept) = Cardinality(LastColourCells)
        /\ lm_last.kept \cup LastCovered = LastColourCells

\* the unit parts build_merged_mpd retained: the type-1 lines before the marker
MarkerAt == CHOOSE i \in DOMAIN lm_out : lm_out[i] = MergedMarker
RetainedUnits ==
    {<<lm_out[i].z, lm_out[i].x, lm_out[i].y>> :
        i \in {j \in 1..(MarkerAt - 1) : lm_out[j].kind = "part"}}
MergedRects ==
    UNION {{<<z, bricks_by_layer[z][i][1]>> : i \in DOMAIN bricks_by_layer[z]} :
              z \in DOMAIN bricks_by_layer}

\* C2 (no overlap): in the document merge_1x1_to_larger produces, the rectangles
\* of the merged parts of a layer are pairwise disjoint, each is emitted once, and
\* no retained 1x1 part lies inside the rectangle of a merged part.
C2_NoOverlap ==
    lm_pc = "built" =>
        /\ \A z \in DOMAIN bricks_by_layer :
             \A i, j \in DOMAIN bricks_by_layer[z] :
                i # j => cells_in_rect(bricks_by_layer[z][i][1])
                           \cap cells_in_rect(bricks_by_layer[z][j][1]) = {}
        /\ \A u \in RetainedUnits, m \in MergedRects :
             ~(u[1] = m[1] /\ <<u[2], u[3]>> \in cells_in_rect(m[2]))

\* C3 (colour fidelity): every rectangle merge_components_for_layer emits for
\* colour c covers only cells whose colour in the layer grid is c, and the
\* emitted brick carries colour c.
C3_ColourFidelity ==
    lm_last.called =>
        \A i \in DOMAIN lm_last.new_bricks :
            /\ lm_last.new_bricks[i][2] = lm_last.color
            /\ \A c \in cells_in_rect(lm_last.new_bricks[i][1]) :
                 c \in DOMAIN LastLayer /\ LastLayer[c] = lm_last.color

\* C3 witness: a rectangle of two or more cells was emitted in a component that
\* also holds a cell of another colour next to it.
C3_Witness ==
    /\ lm_last.called
    /\ \E i \in DOMAIN lm_last.new_bricks :
         /\ rect_area(lm_last.new_bricks[i][1]) >= 2
         /\ \E c \in cells_in_rect(lm_last.new_bricks[i][1]), d \in DOMAIN LastLayer :
              /\ LastLayer[d] # lm_last.color
              /\ Abs(c[1] - d[1]) + Abs(c[2] - d[2]) = 1

(***************************************************************************)
(* Claims about library part ids, the AxialMerger and the RunOptimizer.    *)
(***************************************************************************)
\* the input components that each component of ml_result.merged stands for:
\* the k-th starts at input s and, sitting midway between its first and last
\* input, ends at the input whose position mirrors that of input s
MirrorOf(k, s) ==
    CHOOSE e \in s..Len(ml_components) :
        Along(ml_components[e], ml_axis) + Along(ml_components[s], ml_axis)
          = 2 * Along(ml_result.merged[k], ml_axis)
RECURSIVE Covered(_, _)
Covered(k, s) ==
    IF k > Len(ml_result.merged) THEN <<>>
    ELSE << <<s, MirrorOf(k, s)>> >> \o Covered(k + 1, MirrorOf(k, s) + 1)
\* the studs along the axis from the first to the last input of the k-th output
StudsCovered(k) ==
    ((Along(ml_components[Covered(1, 1)[k][2]], ml_axis)
        - Along(ml_components[Covered(1, 1)[k][1]], ml_axis)) \div STUD_PITCH_LDU) + 1
MlFamily == _resolve_descriptor(ml_part_type)[1][1]
LibraryKeyAlong(family, axis, studs) ==
    IF axis = 0 THEN <<family, studs, 1>> ELSE <<family, 1, studs>>
LibraryPartOf(key) == PART_LIBRARY[CHOOSE i \in DOMAIN PART_LIBRARY : PART_LIBRARY[i].key = key].part

\* C4 (library part of the footprint): a rectangle of w x h cells emitted by
\* merge_components_for_layer has the part number get_part_library maps (w, h)
\* to, and a segment merged by combine_group has the part id
\* PART_LIBRARY[(family, width, depth)] of the studs it covers; a size the
\* library lacks is never emitted.
C4_LibraryPart ==
    /\ lm_last.called =>
         \A i \in DOMAIN lm_last.new_bricks :
            LET r == lm_last.new_bricks[i][1]
                size == <<r[3] - r[1] + 1, r[4] - r[2] + 1>>
            IN /\ size \in DOMAIN get_part_library
               /\ lm_last.new_bricks[i][3] = normalize_part_number(get_part_library[size])
    /\ (ml_pc = "done" /\ ml_result.status = "ok") =>
         \A k \in DOMAIN ml_result.merged :
            IF StudsCovered(k) = 1
            THEN ml_result.merged[k] = ml_components[Covered(1, 1)[k][1]]
            ELSE /\ LibraryKeyAlong(MlFamily, ml_axis, StudsCovered(k)) \in LibraryKeys
                 /\ ml_result.merged[k].part_type
                      = LibraryPartOf(LibraryKeyAlong(MlFamily, ml_axis, StudsCovered(k)))

\* C4 witness: a call of merge_in_line along axis 2 returned a part that
\* stands for three bricks.
C4_Witness ==
    /\ ml_pc = "done" /\ ml_result.status = "ok" /\ ml_axis = 2
    /\ \E k \in DOMAIN ml_result.merged :
         /\ StudsCovered(k) = 3
         /\ ml_result.merged[k].part_type = S3622 \o DotDat

\* C6 as the spec states it: for every key (family, w, h) of PART_LIBRARY with
\* part id p, _resolve_descriptor(p) returns (family, w, h) and
\* _lookup_part_number of it returns p.
C6_RoundTripExact ==
    lib_pc = "done" =>
        \A i \in DOMAIN PART_LIBRARY :
            lib_token = PART_LIBRARY[i].part =>
                /\ lib_descriptor = <<PART_LIBRARY[i].key>>
                /\ lib_part = <<PART_LIBRARY[i].part>>

\* C6 (round trip up to orientation): for every key (family, w, h) of
\* PART_LIBRARY with part id p, _resolve_descriptor(p) returns a key of the
\* library that maps to p and is (family, w, h) or (family, h, w), and
\* _lookup_part_number of it returns p.
C6_RoundTrip ==
    lib_pc = "done" =>
        \A i \in DOMAIN PART_LIBRARY :
            lib_token = PART_LIBRARY[i].part =>
                /\ lib_descriptor # <<>>
                /\ lib_descriptor[1] \in LibraryKeys
                /\ LibraryPartOf(lib_descriptor[1]) = PART_LIBRARY[i].part
                /\ lib_descriptor[1] \in
                     {PART_LIBRARY[i].key,
                      <<PART_LIBRARY[i].key[1], PART_LIBRARY[i].key[3], PART_LIBRARY[i].key[2]>>}
                /\ lib_part = <<PART_LIBRARY[i].part>>

\* C6 witness: 3023.dat, the part id of ("plate", 2, 1), resolved to ("plate", 1, 2).
C6_Witness ==
    /\ lib_pc = "done"
    /\ lib_token = S3023 \o DotDat
    /\ lib_descriptor = << <<"plate", 1, 2>> >>
    /\ lib_part = <<S3023 \o DotDat>>

\* C7 (idempotence of the RunOptimizer): a call of
\* mpd_optimizer.optimize_mpd_file on the file an earlier call with the same
\* base part left behind changes nothing: the same lines in the same order.
C7_Idempotent == [][run_passes >= 1 => run_file' = run_file]_vars

\* the case of C8: two components of one colour and of the 1x1 part that
\* part_type names, one stud pitch apart along the axis, equal elsewhere
C8_Pair ==
    /\ ml_pc = "done"
    /\ Len(ml_components) = 2
    /\ ml_components[1].color = ml_components[2].color
    /\ ml_components[1].part_type = ml_components[2].part_type
    /\ part_to_ldraw(ml_part_type) = <<ml_components[1].part_type>>
    /\ _resolve_descriptor(ml_part_type) = << <<MlFamily, 1, 1>> >>
    /\ Abs(Along(ml_components[2], ml_axis) - Along(ml_components[1], ml_axis)) = STUD_PITCH_LDU
    /\ \A a \in {0, 1, 2} \ {ml_axis} : Along(ml_components[1], a) = Along(ml_components[2], a)

\* C8 (pair merge): merge_in_line on two components of the same colour and
\* the same 1x1 part, exactly one stud pitch apart along the merge axis and
\* equal in the other two coordinates, returns exactly one component: the
\* library's 2-stud part of the family, at the midpoint of the two along the
\* axis, the other two coordinates and the colour unchanged.
C8_PairMerge ==
    C8_Pair =>
        /\ ml_result.status = "ok"
        /\ Len(ml_result.merged) = 1
        /\ ml_result.merged[1].part_type = LibraryPartOf(LibraryKeyAlong(MlFamily, ml_axis, 2))
        /\ 2 * Along(ml_result.merged[1], ml_axis)
             = Along(ml_components[1], ml_axis) + Along(ml_components[2], ml_axis)
        /\ \A a \in {0, 1, 2} \ {ml_axis} :
             Along(ml_result.merged[1], a) = Along(ml_components[1], a)
        /\ ml_result.merged[1].color = ml_components[1].color

\* C8 witness: two adjacent 1x1 bricks along axis 2 came back as one 3004.dat.
C8_Witness ==
    /\ C8_Pair
    /\ ml_axis = 2
    /\ ml_result.merged[1].part_type = S3004 \o DotDat

\* the maximal runs of ml_components: input i is linked to input i + 1 when
\* the two have one colour and sit one stud pitch apart along the axis
Linked(i) ==
    /\ i + 1 \in DOMAIN ml_components
    /\ ml_components[i].color = ml_components[i + 1].color
    /\ Along(ml_components[i + 1], ml_axis) - Along(ml_components[i], ml_axis) = STUD_PITCH_LDU
    /\ \A a \in {0, 1, 2} \ {ml_axis} : Along(ml_components[i], a) = Along(ml_components[i + 1], a)
RunStarts == SortedInts({i \in DOMAIN ml_components : i = 1 \/ ~Linked(i - 1)})
RunLength(s) == Min({n \in 1..Len(ml_components) : ~Linked(s + n - 1)})
\* floor(N / 4) fours and then N mod 4 when that is not 0
LongestFirst(n) == [k \in 1..(n \div 4) |-> 4] \o (IF n % 4 = 0 THEN <<>> ELSE <<n % 4>>)
ExpectedStuds == Flatten([r \in DOMAIN RunStarts |-> LongestFirst(RunLength(RunStarts[r]))])
\* the case of C9: unit parts of the 1x1 part that part_type names
C9_Targets ==
    /\ ml_pc = "done"
    /\ ml_components # <<>>
    /\ _resolve_descriptor(ml_part_type) = << <<MlFamily, 1, 1>> >>
    /\ \A i \in DOMAIN ml_components :
         part_to_ldraw(ml_part_type) = <<ml_components[i].part_type>>

\* C9 (longest first): for every maximal run of N contiguous same-colour 1x1
\* target parts merge_in_line emits, in along-axis order, floor(N/4) four-stud
\* parts and then one part of N mod 4 studs when that is not 0, the unmerged
\* 1x1 part itself when it is 1; the stud lengths sum to N.
C9_LongestFirst ==
    C9_Targets =>
        /\ ml_result.status = "ok"
        /\ Len(ml_result.merged) = Len(ExpectedStuds)
        /\ \A k \in DOMAIN ml_result.merged :
             /\ StudsCovered(k) = ExpectedStuds[k]
             /\ IF ExpectedStuds[k] = 1
                THEN ml_result.merged[k] = ml_components[Covered(1, 1)[k][1]]
                ELSE ml_result.merged[k].part_type
                       = LibraryPartOf(LibraryKeyAlong(MlFamily, ml_axis, ExpectedStuds[k]))
        /\ SumSeq(ExpectedStuds) = Len(ml_components)

\* C9 witness: a run of five plates came back as a 3710.dat midway between
\* the first and the fourth, followed by the fifth plate itself.
C9_Witness ==
    /\ C9_Targets
    /\ Len(ml_components) = 5
    /\ RunStarts = <<1>>
    /\ Len(ml_result.merged) = 2
    /\ ml_result.merged[1].part_type = S3710 \o DotDat
    /\ 2 * Along(ml_result.merged[1], ml_axis)
         = Along(ml_components[1], ml_axis) + Along(ml_components[4], ml_axis)
    /\ ml_result.merged[2] = ml_components[5]

\* the target lines of ax_file and the merge axis of the layer of each
AxTarget == part_to_ldraw(ax_part_type)
AxTargetLines ==
    {i \in DOMAIN ax_file.lines :
        /\ AxTarget # <<>>
        /\ parse_mpd_line(ax_file.lines[i]).status = "ok"
        /\ StrLower(ax_file.lines[i][15]) = StrLower(AxTarget[1])}
AxPosition(i) == <<float(ax_file.lines[i][3]).v, float(ax_file.lines[i][4]).v,
                   float(ax_file.lines[i][5]).v>>
AxAxisOf(i) ==
    IF ax_axis \in {<<0>>, <<2>>} THEN ax_axis[1]
    ELSE IF AxPosition(i)[2] % AXIS_SWITCH_UNIT = 0 THEN 0 ELSE 2
AxAdjacent(i, j) ==
    /\ AxPosition(i)[2] = AxPosition(j)[2]
    /\ Abs(AxPosition(i)[AxAxisOf(i) + 1] - AxPosition(j)[AxAxisOf(i) + 1]) = STUD_PITCH_LDU
    /\ AxPosition(i)[3 - AxAxisOf(i)] = AxPosition(j)[3 - AxAxisOf(i)]
NoAdjacentTargets == \A i, j \in AxTargetLines : ~AxAdjacent(i, j)

\* C10 (no merge across a gap): when no two target-part lines of the document
\* are adjacent along their layer's merge axis, opt_v3.optimize_mpd_file
\* leaves the file exactly as it was, with no 'Optimized components' marker
\* in it.
C10_NoMergeAcrossGap ==
    [][(ax_pc = "call" /\ NoAdjacentTargets) =>
          /\ ax_file' = ax_file
          /\ \A i \in DOMAIN ax_file'.lines : ax_file'.lines[i] # OptimizedMarker]_vars

\* C10 witness: the call returned on a file with two target plates of one
\* colour in one row, two stud pitches apart, and none adjacent.
C10_Witness ==
    /\ ax_pc = "done"
    /\ ax_status = "returned"
    /\ NoAdjacentTargets
    /\ \E i, j \in AxTargetLines :
         /\ ax_file.lines[i][2] = ax_file.lines[j][2]
         /\ AxPosition(i)[2] = AxPosition(j)[2]
         /\ AxPosition(i)[3 - AxAxisOf(i)] = AxPosition(j)[3 - AxAxisOf(i)]
         /\ AxPosition(j)[AxAxisOf(i) + 1] - AxPosition(i)[AxAxisOf(i) + 1] = 2 * STUD_PITCH_LDU

(***************************************************************************)
(* Claims about the RunOptimizer's segments and its pass-through.          *)
(***************************************************************************)
\* the variant table and the candidates of a file for a base part
VariantsOf(base_part) == PART_VARIANTS[base_part]
CandidateLines(file, base_part) ==
    SelectSeq(file.lines, LAMBDA l : IsCandidate(l, VariantsOf(base_part)[1] \o DotDat))
KeptOf(file, base_part) ==
    SelectSeq(file.lines, LAMBDA l : ~IsCandidate(l, VariantsOf(base_part)[1] \o DotDat))
Entries(file, base_part) ==
    {CandidateOf(CandidateLines(file, base_part)[i]) : i \in DOMAIN CandidateLines(file, base_part)}
\* an entry starts a run when none sits one stud to its left in its row
EntryAt(E, e, n) == [e EXCEPT !.x = e.x + n * STUD_SPACING_LDU]
RunHeads(E) == {e \in E : EntryAt(E, e, -1) \notin E}
RunLengthFrom(E, e) == Min({n \in 1..Cardinality(E) : EntryAt(E, e, n) \notin E})
\* the longest key of the table that fits, again and again
RECURSIVE GreedyLengths(_, _)
GreedyLengths(n, keys) ==
    IF n = 0 THEN <<>>
    ELSE <<Max({k \in keys : k <= n})>> \o GreedyLengths(n - Max({k \in keys : k <= n}), keys)
\* the line that stands for the k-th segment of a run of the given lengths
SegmentLine(e, lengths, k, variants) ==
    _make_line(e.color,
               <<e.x + STUD_SPACING_LDU * SumSeq(SubSeq(lengths, 1, k - 1))
                     + (STUD_SPACING_LDU * (lengths[k] - 1)) \div 2, e.y, e.z>>,
               IDENTITY_ORIENTATION, variants[lengths[k]])
SegmentLinesOf(E, e, variants) ==
    {SegmentLine(e, GreedyLengths(RunLengthFrom(E, e), DOMAIN variants), k, variants) :
        k \in DOMAIN GreedyLengths(RunLengthFrom(E, e), DOMAIN variants)}
ExpectedSegmentLines(E, variants) == UNION {SegmentLinesOf(E, e, variants) : e \in RunHeads(E)}
\* what a call appended: the lines of the file it wrote that come after the
\* kept ones, a closing 0 NOFILE apart
TailCount(kept) == IF kept # <<>> /\ IsNoFile(kept[Len(kept)]) THEN 1 ELSE 0
Emitted(kept, after) ==
    SubSeq(after.lines, Len(kept) - TailCount(kept) + 1, Len(after.lines) - TailCount(kept))
StudsOfLine(line, variants) ==
    CHOOSE k \in DOMAIN variants : line[Len(line)] = variants[k] \o DotDat
SegmentsEmitted(emitted, expected, variants, count) ==
    /\ Range(emitted) = expected
    /\ Len(emitted) = Cardinality(expected)
    /\ \A i \in DOMAIN emitted :
         \E k \in DOMAIN variants : emitted[i][Len(emitted[i])] = variants[k] \o DotDat
    /\ SumSeq([i \in DOMAIN emitted |-> StudsOfLine(emitted[i], variants)]) = count
GreedySegments(before, after, base_part) ==
    Entries(before, base_part) # {} =>
        SegmentsEmitted(Emitted(KeptOf(before, base_part), after),
                        ExpectedSegmentLines(Entries(before, base_part), VariantsOf(base_part)),
                        VariantsOf(base_part),
                        Cardinality(Entries(before, base_part)))

\* C11 (greedy segmentation of the RunOptimizer): a call splits every run of
\* N contiguous candidates into consecutive segments, each of the longest
\* length of the base part's variant table that the rest of the run still
\* holds (1 at the least), and emits exactly one part of that length per
\* segment, at the middle of the segment; every length is a key of the table
\* and the lengths sum to the number of candidates.
C11_GreedySegments ==
    [][(run_base_part \in DOMAIN PART_VARIANTS /\ run_file.exists)
          => GreedySegments(run_file, run_file', run_base_part)]_vars

\* C11 witness: a run of six unit plates came back as a 3710.dat over the
\* first four and a 3023.dat over the last two.
C11_Witness ==
    /\ run_passes = 1
    /\ run_status = "written"
    /\ run_base_part = Plate1x1
    /\ Len(run_file.lines) = 4
    /\ run_file.lines[2][15] = S3710 \o DotDat
    /\ run_file.lines[2][3] = Format3f(30 * Scale)
    /\ run_file.lines[3][15] = S3023 \o DotDat
    /\ run_file.lines[3][3] = Format3f(90 * Scale)

\* the lines a call appended are placements of parts of the variant table
EmittedParts(emitted, variants) ==
    /\ emitted # <<>>
    /\ \A i \in DOMAIN emitted :
         /\ emitted[i][1] = One
         /\ \E k \in DOMAIN variants : emitted[i][Len(emitted[i])] = variants[k] \o DotDat
KeptFirst(kept, after) ==
    /\ Len(after.lines) > Len(kept)
    /\ SubSeq(after.lines, 1, Len(kept)) = kept
KeptAroundEmitted(kept, after, variants) ==
    /\ Len(after.lines) > Len(kept)
    /\ SubSeq(after.lines, 1, Len(kept) - TailCount(kept))
         = SubSeq(kept, 1, Len(kept) - TailCount(kept))
    /\ TailCount(kept) = 1 => after.lines[Len(after.lines)] = kept[Len(kept)]
    /\ EmittedParts(Emitted(kept, after), variants)

\* C12 as the spec states it: in the output of
\* mpd_optimizer.optimize_mpd_file every input line that is not an
\* identity-oriented placement of the base 1-unit part appears unchanged, in
\* its original relative order, and all of those lines come before every
\* newly emitted line.
C12_KeptBeforeEmitted ==
    [][(run_base_part \in DOMAIN PART_VARIANTS /\ run_file.exists)
          => IF Entries(run_file, run_base_part) = {} THEN run_file' = run_file
             ELSE KeptFirst(KeptOf(run_file, run_base_part), run_file')]_vars

\* C12 (pass-through, the closing line apart): in the output of
\* mpd_optimizer.optimize_mpd_file every input line that is not an
\* identity-oriented placement of the base 1-unit part appears unchanged and
\* in its original relative order; all of them come before every newly
\* emitted line, except that a 0 NOFILE which is the last of them comes after
\* the emitted lines, as the last line of the output.  A file without such a
\* placement is left as it is.
C12_PassThrough ==
    [][(run_base_part \in DOMAIN PART_VARIANTS /\ run_file.exists)
          => IF Entries(run_file, run_base_part) = {} THEN run_file' = run_file
             ELSE KeptAroundEmitted(KeptOf(run_file, run_base_part), run_file',
                                    VariantsOf(run_base_part))]_vars

\* C12 witness: of a turned unit plate between two unit plates and a closing
\* 0 NOFILE, the turned plate came first, the 1x2 plate for the two after it
\* and the 0 NOFILE last.
C12_Witness ==
    /\ run_passes = 1
    /\ run_status = "written"
    /\ run_file.lines = <<TurnedLine,
                          _make_line(ColourTokens[1], <<10 * Scale, 0, 0>>,
                                     IDENTITY_ORIENTATION, S3023),
                          NoFileTokens>>

(***************************************************************************)
(* Claims about the AxialMerger's handling of errors.                      *)
(***************************************************************************)
\* a type-1 line with fewer than the 15 tokens of a placement, or with a
\* coordinate or matrix entry that is no number
Malformed(line) ==
    /\ Len(line) >= 1 /\ line[1] = One
    /\ \/ Len(line) < 15
       \/ \E i \in 3..14 : ~float(line[i]).ok
PassedThrough(before, after) ==
    \A i \in DOMAIN before.lines :
        Malformed(before.lines[i]) =>
            Cardinality({j \in DOMAIN after.lines : after.lines[j] = before.lines[i]})
              = Cardinality({j \in DOMAIN before.lines : before.lines[j] = before.lines[i]})

\* C13 (malformed lines never abort parsing): opt_v3.optimize_mpd_file does
\* not raise on a malformed type-1 line: a line that starts with '1 ' and
\* has fewer than 15 tokens, exactly 14 included, or a coordinate that is no
\* number, takes no part in merging and is in the output as it was.
C13_MalformedSkipped ==
    [][(ax_pc = "call" /\ ax_file.exists /\ AxTarget # <<>>) =>
          /\ ax_status' \in {"returned", "written"}
          /\ PassedThrough(ax_file, ax_file')
          /\ \A i \in DOMAIN ax_file.lines :
               Malformed(ax_file.lines[i]) => parse_mpd_line(ax_file.lines[i]).status = "none"]_vars

\* C14 (an unknown part type fails fast): for a part type that resolves to
\* no library entry, opt_v3.optimize_mpd_file on a file that is there raises
\* ValueError and leaves the file as it was, and merge_in_line raises
\* ValueError and returns nothing, also for an empty list of components.
C14_UnknownPartFails ==
    [][/\ (ax_pc = "call" /\ ax_file.exists /\ _resolve_descriptor(ax_part_type) = <<>>) =>
            /\ ax_status' = "ValueError"
            /\ ax_file' = ax_file
       /\ (ml_pc = "call" /\ _resolve_descriptor(ml_part_type) = <<>>) =>
            /\ ml_result'.status = "ValueError"
            /\ ml_result'.merged = <<>>]_vars

\* C14 witness: merge_in_line raised ValueError for the part type "unknown"
\* on an empty list of components.
C14_Witness ==
    /\ ml_pc = "done"
    /\ ml_part_type = UnknownPart
    /\ ml_components = <<>>
    /\ ml_axis = 0
    /\ ml_result.status = "ValueError"

\* C15 (an unsupported merge axis fails fast): an explicit axis other than 0
\* and 2 is reported as an error before any merge work and before the file
\* is modified, by optimize_mpd_file(file, part, axis) and by
\* merge_in_line(components, axis, part).
C15_BadAxisFails ==
    [][/\ (/\ ax_pc = "call" /\ ax_file.exists /\ _resolve_descriptor(ax_part_type) # <<>>
           /\ ax_axis # <<>> /\ ax_axis[1] \notin {0, 2}) =>
            /\ ax_status' \in {"ValueError"}
            /\ ax_file' = ax_file
       /\ (ml_pc = "call" /\ _resolve_descriptor(ml_part_type) # <<>> /\ ml_axis \notin {0, 2}) =>
            /\ ml_result'.status = "ValueError"
            /\ ml_result'.merged = <<>>]_vars

(***************************************************************************)
(* Claims about the merge axis the AxialMerger picks by layer height.      *)
(***************************************************************************)
\* axis 0 for the even multiples of AXIS_SWITCH_UNIT, axis 2 otherwise
ParityAxis(layer_height) == IF layer_height % (2 * AXIS_SWITCH_UNIT) = 0 THEN 0 ELSE 2
OneLayer(h) == \A i \in AxTargetLines : AxPosition(i)[2] = h

\* C16 (axis by layer height): with no explicit axis, _axis_for_layer picks
\* axis 0 for layer heights that are even multiples of AXIS_SWITCH_UNIT
\* (48 LDU) and axis 2 for odd multiples and for heights that are no
\* multiples of it, and optimize_mpd_file merges each layer along that axis.
C16_AxisByHeight ==
    [][(ax_pc = "call" /\ ax_file.exists /\ ax_axis = <<>> /\ AxTarget # <<>>) =>
          \A i \in AxTargetLines :
             /\ _axis_for_layer(AxPosition(i)[2]) = ParityAxis(AxPosition(i)[2])
             /\ OneLayer(AxPosition(i)[2]) =>
                  ax_file' = optimize_mpd_file(ax_file, ax_part_type,
                                               <<ParityAxis(AxPosition(i)[2])>>).file]_vars

\* the case of C17: the target lines of the file are two, of one colour, at
\* (x, y, h) and (x, y + 20, h), and h is no even multiple of AXIS_SWITCH_UNIT
StackedPair ==
    /\ Cardinality(AxTargetLines) = 2
    /\ \E i, j \in AxTargetLines :
         /\ ax_file.lines[i][2] = ax_file.lines[j][2]
         /\ AxPosition(i)[1] = AxPosition(j)[1]
         /\ AxPosition(j)[2] = AxPosition(i)[2] + STUD_PITCH_LDU
         /\ AxPosition(i)[3] = AxPosition(j)[3]
         /\ AxPosition(i)[3] % (2 * AXIS_SWITCH_UNIT) # 0
HasPart(file, part_no) ==
    \E i \in DOMAIN file.lines :
        /\ Len(file.lines[i]) = 15 /\ file.lines[i][1] = One
        /\ file.lines[i][15] = part_no \o DotDat

\* C17 (merge along the second coordinate): with no explicit axis, for a
\* height h (the third position coordinate) that is no even multiple of
\* AXIS_SWITCH_UNIT, optimize_mpd_file merges two target 1x1 parts of one
\* colour at (x, y, h) and (x, y + 20, h) into one 2-stud part: the output
\* has the 2-stud part and no 1x1 target line.
C17_StackedPairMerged ==
    [][(ax_pc = "call" /\ ax_file.exists /\ ax_axis = <<>> /\ AxTarget # <<>> /\ StackedPair) =>
          /\ HasPart(ax_file', S3023)
          /\ ~HasPart(ax_file', S3024)]_vars

(***************************************************************************)
(* Claims about the colour functions.                                      *)
(***************************************************************************)
\* the three channels in the low 24 bits of a true-colour code
ChannelsOf(n) == <<(n \div 65536) % 256, (n \div 256) % 256, n % 256>>
HexByte(n) == <<UpperChar(HexDigits[(n \div 16) + 1]), UpperChar(HexDigits[(n % 16) + 1])>>
DirectToken(rgb) == <<"0", "x", "2">> \o HexByte(rgb[1]) \o HexByte(rgb[2]) \o HexByte(rgb[3])
IsDirect(value) == value.kind = "int" /\ DirectLow <= value.v /\ value.v <= DirectHigh
Rendered == col_pc \in {"decode", "match", "done"}
Decoded == col_pc \in {"match", "done"}

\* C18 (direct-colour round trip): once _format_ldraw_color has rendered an
\* integer colour code, a code 0x02000000 | (r<<16 | g<<8 | b) has become the
\* token 0x2RRGGBB and any other integer its decimal digits; and once
\* hex_to_rgb has decoded the token of a true-colour code, the result is
\* exactly (r, g, b).
C18_DirectRoundTrip ==
    (Rendered /\ col_value.kind = "int") =>
        /\ IsDirect(col_value) => col_token = DirectToken(ChannelsOf(col_value.v))
        /\ ~IsDirect(col_value) => col_token = IntToStr(col_value.v)
        /\ (Decoded /\ IsDirect(col_value)) => col_rgb = ChannelsOf(col_value.v)

\* the code 0x02FF00AA was rendered as 0x2FF00AA and decoded to (255, 0, 170)
C18_Witness ==
    /\ Decoded
    /\ col_value = IntValue(DirectLow + 16711850)
    /\ col_token = <<"0", "x", "2", "F", "F", "0", "0", "A", "A">>
    /\ col_rgb = <<255, 0, 170>>

\* what the decoding rule makes of a token: the characters after the prefix,
\* left-padded with zeros or cut to the rightmost six, read as RRGGBB
PrefixStripped(token) == LStripChars(LStripChars(token, {"#"}), {"0", "x"})
SixOf(s) == IF Len(s) < 6 THEN Zeros(6 - Len(s)) \o s ELSE SubSeq(s, Len(s) - 5, Len(s))
IsHex(s) == \A i \in DOMAIN s : s[i] \in DOMAIN HexVal
ByteAt(six, i) == 16 * HexVal[six[i]] + HexVal[six[i + 1]]
ReadRgb(six) ==
    IF IsHex(six) THEN <<ByteAt(six, 1), ByteAt(six, 3), ByteAt(six, 5)>> ELSE <<0, 0, 0>>

\* C19 (colour decoding is total): hex_to_rgb returns for every string token;
\* the token, after its prefix, is left-padded with zeros to six characters
\* or cut to its rightmost six, the six characters are read as RRGGBB, and
\* where they are not six hexadecimal digits the result is black (0, 0, 0).
C19_DecodeTotal ==
    (col_pc = "match" /\ col_value = NoneValue) =>
        col_rgb = ReadRgb(SixOf(PrefixStripped(col_token)))

\* the squared Euclidean distance of an input to the palette entry at index i
SquaredDistance(rgb, i) ==
    (rgb[1] - LEGO_COLORS[i].rgb[1]) * (rgb[1] - LEGO_COLORS[i].rgb[1])
      + (rgb[2] - LEGO_COLORS[i].rgb[2]) * (rgb[2] - LEGO_COLORS[i].rgb[2])
      + (rgb[3] - LEGO_COLORS[i].rgb[3]) * (rgb[3] - LEGO_COLORS[i].rgb[3])
Nearest(rgb) ==
    {i \in DOMAIN LEGO_COLORS :
        \A j \in DOMAIN LEGO_COLORS : SquaredDistance(rgb, i) <= SquaredDistance(rgb, j)}
NearestFirst(rgb, id) ==
    \E i \in Nearest(rgb) :
        /\ LEGO_COLORS[i].id = id
        /\ \A j \in Nearest(rgb) : i <= j

\* C20 (nearest palette colour): the id match_lego_color returned is the id
\* of a palette entry at the least Euclidean distance from the input, and of
\* the first such entry in the order of LEGO_COLORS when several entries are
\* at that distance.
C20_NearestFirst == col_pc = "done" => NearestFirst(col_rgb, col_id)

\* (0, 155, 180) is equally far from the entries 3 and 11; 3 comes first and was returned
C20_Witness ==
    /\ col_pc = "done"
    /\ col_rgb = <<0, 155, 180>>
    /\ Cardinality(Nearest(col_rgb)) = 2
    /\ col_id = <<"3">>

(***************************************************************************)
(* Claims about the no-op returns of the RunOptimizer.                     *)
(***************************************************************************)
Unsupported(base_part) == base_part \notin DOMAIN PART_VARIANTS
\* a type-1 line that places the unit part of the base part, not rotated
UnitPlacement(line, base_part) ==
    /\ Len(line) >= 14
    /\ line[1] = One
    /\ StrLower(line[Len(line)]) = StrLower(PART_VARIANTS[base_part][1] \o DotDat)
    /\ SubSeq(line, 6, 14) = IDENTITY_ORIENTATION
NoUnitPlacement(file, base_part) ==
    \A i \in DOMAIN file.lines : ~UnitPlacement(file.lines[i], base_part)
NoopCase(file, base_part) ==
    \/ Unsupported(base_part)
    \/ ~file.exists
    \/ file.lines = <<>>
    \/ NoUnitPlacement(file, base_part)

\* C21 (no-op conditions of the RunOptimizer): when the base part has no
\* variant table, when the file does not exist or has no line, or when no
\* line places the unit part of the base part in identity orientation,
\* optimize_mpd_file of mpd_optimizer.py returns without writing and the
\* file is exactly what it was.
C21_NoOp ==
    [][NoopCase(run_file, run_base_part) =>
          (run_status' = "returned" /\ run_file' = run_file)]_vars

\* a document whose only unit plate is rotated was returned untouched
C21_Witness ==
    /\ run_passes = 1
    /\ run_status = "returned"
    /\ run_base_part = Plate1x1
    /\ run_file.lines = <<ForeignLine, TurnedLine, NoFileTokens>>

(***************************************************************************)
(* Claims about merge_components_for_layer called on its own.              *)
(***************************************************************************)
CallCells == DOMAIN LayerOf(mc_grid, CallLayer)
Called == mc_pc \in {"moved", "done"}
Adjacent4(a, b) == Abs(a[1] - b[1]) + Abs(a[2] - b[2]) = 1
\* the cells a path of horizontally or vertically adjacent cells joins to S
RECURSIVE JoinedTo(_, _)
JoinedTo(cells, S) ==
    IF \E c \in cells \ S : \E s \in S : Adjacent4(c, s)
    THEN JoinedTo(cells, S \cup {c \in cells : \E s \in S : Adjacent4(c, s)})
    ELSE S

\* C22 (components are a partition under 4-connectivity): the sets
\* bfs_connected_components returned are not empty, pairwise disjoint and
\* together are the cells of the grid, and each set is exactly the cells
\* that a path of horizontally or vertically adjacent grid cells joins to
\* any one of its cells; cells touching only diagonally are in different sets.
C22_Partition ==
    Called =>
        /\ \A i \in DOMAIN mc_comps : mc_comps[i] # {}
        /\ \A i, j \in DOMAIN mc_comps : i # j => mc_comps[i] \cap mc_comps[j] = {}
        /\ UNION {mc_comps[i] : i \in DOMAIN mc_comps} = CallCells
        /\ \A i \in DOMAIN mc_comps :
              \A a \in mc_comps[i] : mc_comps[i] = JoinedTo(CallCells, {a})

\* two joined cells and a third that touches one of them only diagonally
C22_Witness ==
    /\ Called
    /\ CallCells = {<<0, 0>>, <<1, 0>>, <<2, 1>>}
    /\ mc_comps = <<{<<0, 0>>, <<1, 0>>}, {<<2, 1>>}>>

SupportCells == DOMAIN LayerOf(mc_grid, CallLayer - 1)
BrickCells(brick) == cells_in_rect(brick[1])
ResultBricks == {mc_result.new_bricks[i] : i \in DOMAIN mc_result.new_bricks}

\* C23 (structural support check): with stability enabled, every rectangle
\* merge_components_for_layer emitted in layer z has an occupied cell of
\* layer z-1 under each of its cells; and a rectangle that failed the check
\* has marked nothing used: a component with a supported cell still gets a
\* rectangle, a component without one is kept as it is.
C23_Supported ==
    (Called /\ mc_stability) =>
        /\ \A b \in ResultBricks : BrickCells(b) \subseteq SupportCells
        /\ \A i \in DOMAIN mc_comps :
              IF mc_comps[i] \cap SupportCells # {}
              THEN \E b \in ResultBricks : BrickCells(b) \subseteq mc_comps[i]
              ELSE mc_comps[i] \subseteq mc_result.kept

\* of two joined cells only (0, 0) is supported: the 1x2 rectangle was
\* rejected and the unit rectangle on (0, 0) emitted
C23_Witness ==
    /\ Called /\ mc_stability
    /\ CallCells = {<<0, 0>>, <<1, 0>>}
    /\ SupportCells = {<<0, 0>>}
    /\ mc_result.new_bricks = << <<<<0, 0, 0, 0>>, 21, S3024>> >>

CallColourOnly(comp) == \A c \in comp : LayerOf(mc_grid, CallLayer)[c] = mc_color
Claimed == UNION {BrickCells(b) : b \in ResultBricks}
PartsIn(comp) == {i \in DOMAIN mc_result.new_bricks : BrickCells(mc_result.new_bricks[i]) \subseteq comp}

\* C24 (scanning continues after an acceptance): after a rectangle is
\* accepted in a component, further rectangles of the same size and then of
\* the smaller sizes are placed on the cells still unclaimed, down to the
\* unit size; so every cell of a component of the call's colour ends up in
\* a rectangle, and a straight run of 8 cells receives two parts of 4 cells.
C24_ScanContinues ==
    (Called /\ ~mc_stability) =>
        /\ \A i \in DOMAIN mc_comps :
              CallColourOnly(mc_comps[i]) => mc_comps[i] \subseteq Claimed
        /\ (CallCells = (0..7) \X {0} /\ mc_color = 21) =>
              /\ Cardinality(PartsIn(CallCells)) = 2
              /\ \A i \in PartsIn(CallCells) : rect_area(mc_result.new_bricks[i][1]) = 4

MaxW == Max({mc_candidates[i][1] : i \in DOMAIN mc_candidates})
SizeArea(s) == s[1] * s[2]
Squareness(s) == Abs(s[1] - s[2])
\* the sizes of the call that the library has
LibrarySizes == {mc_candidates[i] : i \in DOMAIN mc_candidates} \cap DOMAIN get_part_library
\* a rectangle of size s lies on cells of the component that have the call's colour
FitsIn(s, comp) ==
    \E c \in comp :
        LET cover == cells_in_rect(<<c[1], c[2], c[1] + s[1] - 1, c[2] + s[2] - 1>>)
        IN cover \subseteq comp /\ CallColourOnly(cover)

\* C25 (largest size first): the candidates of the call are every (w, h)
\* with 1 <= w, h <= max_wh, in descending area and, at equal area, closest
\* to square first; and in every component the first rectangle accepted has
\* the largest area of all library sizes that fit on cells of the call's
\* colour in that component (a rectangle is accepted whenever a size fits).
C25_LargestFirst ==
    (Called /\ ~mc_stability) =>
        /\ Len(mc_candidates) = MaxW * MaxW
        /\ {mc_candidates[i] : i \in DOMAIN mc_candidates} = (1..MaxW) \X (1..MaxW)
        /\ \A i, j \in DOMAIN mc_candidates :
              i < j =>
                 \/ SizeArea(mc_candidates[i]) > SizeArea(mc_candidates[j])
                 \/ /\ SizeArea(mc_candidates[i]) = SizeArea(mc_candidates[j])
                    /\ Squareness(mc_candidates[i]) <= Squareness(mc_candidates[j])
        /\ \A k \in DOMAIN mc_comps :
              \A s \in LibrarySizes :
                 FitsIn(s, mc_comps[k]) =>
                    /\ PartsIn(mc_comps[k]) # {}
                    /\ rect_area(mc_result.new_bricks[Min(PartsIn(mc_comps[k]))][1])
                          >= SizeArea(s)

\* the full 4 x 2 block received the 4 x 2 plate 3020, the largest size that fits
C25_Witness ==
    /\ Called
    /\ mc_candidates = Candidates
    /\ CallCells = (0..3) \X {0, 1}
    /\ CallColourOnly(CallCells)
    /\ mc_result.new_bricks = << <<<<0, 0, 3, 1>>, mc_color, S3020>> >>

MovedCell(c) == <<c[1] + mc_offset[1], c[2] + mc_offset[2]>>
MovedRect(r) ==
    <<r[1] + mc_offset[1], r[2] + mc_offset[2], r[3] + mc_offset[1], r[4] + mc_offset[2]>>
MovedBrick(b) == <<MovedRect(b[1]), b[2], b[3]>>

\* C28 (translation invariance of the LayerMerger): on the grid moved by an
\* integer offset merge_components_for_layer returns the rectangles and the
\* kept cells it returns on the grid itself, each moved by that offset, also
\* where the offset leads to negative coordinates or to 10000 and above.
C28_Translation ==
    mc_pc = "done" =>
        /\ mc_moved.kept = {MovedCell(c) : c \in mc_result.kept}
        /\ mc_moved.new_bricks =
              [i \in DOMAIN mc_result.new_bricks |-> MovedBrick(mc_result.new_bricks[i])]

(***************************************************************************)
(* Claims about where the merged parts are written.                        *)
(***************************************************************************)
\* the part lines build_merged_mpd wrote after the marker comment
MergedPlacements == {lm_out[i] : i \in {j \in (MarkerAt + 1)..Len(lm_out) : lm_out[j].kind = "part"}}

\* a placement at the midpoint of the unit positions a rectangle replaces
Centred(line, z, brick) ==
    /\ line.z = z
    /\ 2 * line.x = brick[1][1] + brick[1][3]
    /\ 2 * line.y = brick[1][2] + brick[1][4]
    /\ line.color = brick[2]

\* C26 (centred placement): in the document merge_1x1_to_larger produces, the
\* placement line of every merged rectangle (x0,y0,x1,y1) is at the midpoint
\* ((x0+x1)/2, (y0+y1)/2) of the unit parts it replaces, in the rectangle's layer
\* and with the rectangle's colour.
C26_Centred ==
    lm_pc = "built" =>
        \A z \in DOMAIN bricks_by_layer :
            \A i \in DOMAIN bricks_by_layer[z] :
                \E line \in MergedPlacements : Centred(line, z, bricks_by_layer[z][i])

(***************************************************************************)
(* Claims about the length combine_group chooses at each position.         *)
(***************************************************************************)
\* the run of the k-th output and the inputs of that run not yet consumed
RunStartOf(s) == Max({r \in {RunStarts[i] : i \in DOMAIN RunStarts} : r <= s})
RemainingAt(k) ==
    RunStartOf(Covered(1, 1)[k][1]) + RunLength(RunStartOf(Covered(1, 1)[k][1]))
      - Covered(1, 1)[k][1]
\* the stud lengths the library has along the axis for the 1-stud cross-section
LengthsAlong == {n \in 1..RunMax : LibraryKeyAlong(MlFamily, ml_axis, n) \in LibraryKeys}

\* C27 as stated (dividing length): at each position of a run merge_in_line
\* chooses the longest library length that evenly divides the remaining run
\* length.
C27_LongestDividing ==
    C9_Targets =>
        \A k \in DOMAIN ml_result.merged :
            StudsCovered(k) = Max({n \in LengthsAlong : RemainingAt(k) % n = 0})

\* C27 (longest fitting length): at each position of a run of 1x1 target parts
\* merge_in_line chooses the longest library length that is not longer than the
\* remaining run, whether or not it divides the remaining run length.
C27_LongestFitting ==
    C9_Targets =>
        \A k \in DOMAIN ml_result.merged :
            StudsCovered(k) = Max({n \in LengthsAlong : n <= RemainingAt(k)})

\* C27 witness: a run of six came back as a part of four studs, which does not
\* divide six, and a part of two studs.
C27_Witness ==
    /\ C9_Targets
    /\ Len(ml_components) = 6
    /\ RunStarts = <<1>>
    /\ Len(ml_result.merged) = 2
    /\ StudsCovered(1) = 4
    /\ RemainingAt(1) = 6
    /\ StudsCovered(2) = 2

(***************************************************************************)
(* Claims about parsing a colour that is already a palette id.             *)
(***************************************************************************)
\* C29 (quantisation is idempotent on palette ids): when the colour token of a
\* line is a palette id p of LEGO_COLORS, parse_mpd_line gives the component
\* the colour p again: match_lego_color(hex_to_rgb(p)) = p.
C29_PaletteFixed ==
    (col_pc = "done" /\ col_token \in PaletteIds) => col_id = col_token

(***************************************************************************)
(* Claims about the section of a document the emitted parts are written to.*)
(* The documents have one section, closed by 0 NOFILE.                     *)
(***************************************************************************)
\* the lines of a document that place a part other than the unit part
LongerParts(lines, unit) ==
    {i \in DOMAIN lines : /\ Len(lines[i]) >= 15 /\ lines[i][1] = One
                          /\ StrLower(lines[i][15]) # StrLower(unit)}
\* line i of a document comes before a 0 NOFILE line
ClosedAfter(lines, i) == \E j \in (i + 1)..Len(lines) : IsNoFile(lines[j])

\* the AxialMerger wrote its parts inside the section
AxialInSection ==
    (ax_pc = "done" /\ ax_status = "written") =>
        \A i \in LongerParts(ax_file.lines, S3024 \o DotDat) : ClosedAfter(ax_file.lines, i)
\* the LayerMerger wrote its parts inside the section
LayerInSection ==
    lm_pc = "built" =>
        \A i \in (MarkerAt + 1)..Len(lm_out) :
            lm_out[i].kind = "part" => \E j \in (i + 1)..Len(lm_out) : lm_out[j] = NoFileLine
\* the RunOptimizer wrote its parts inside the section
RunInSection ==
    (run_passes >= 1 /\ run_status = "written") =>
        \A i \in LongerParts(run_file.lines, S3024 \o DotDat) \cap LongerParts(run_file.lines, S3005 \o DotDat) :
            ClosedAfter(run_file.lines, i)

\* C30 (emitted parts stay in their section): in the documents that
\* opt_v3.optimize_mpd_file, merge_1x1_to_larger and
\* mpd_optimizer.optimize_mpd_file write, every newly emitted placement line
\* comes before the 0 NOFILE line that closes the section of the unit parts it
\* replaces.
C30_InSection == AxialInSection /\ LayerInSection /\ RunInSection

====
